---- MODULE Spec2Model ----
(***************************************************************************)
(* A model of the MozhiAmudhu text pipeline: the text cleaner              *)
(* (app/text_cleaner.py), the two circular classifiers (app/pdf_reader.py, *)
(* app/circular_checker.py) and the extractive summarizer                  *)
(* (app/summarizer.py); and of the programs around it: the session of the  *)
(* Streamlit application (ui/streamlit_app.py), the text-to-speech         *)
(* generator (app/tts_generator.py) and the translator (app/translator.py).*)
(*                                                                         *)
(* A Python str is modelled as a sequence of characters; a character is a  *)
(* one-character string ("a", " ", "\n"), and a character outside ASCII is *)
(* named by its code point ("u0B85" is TAMIL LETTER A).  Every regular     *)
(* expression of the source is an operator that computes the match at a    *)
(* position the way the backtracking matcher does (greedy quantifiers,     *)
(* leftmost non-overlapping substitution).                                 *)
(***************************************************************************)
EXTENDS Integers, Sequences, FiniteSets, TLC

VARIABLES
    text,                  \* the document handed to the functions
    fed,                   \* the number of fragments the document was built of
    pc,                    \* the last function that ran on the document
    remove_page_numbers,   \* clean_text's flag
    cleaned,               \* clean_text(text, remove_page_numbers)
    recleaned,             \* clean_text(cleaned, remove_page_numbers)
    verdict,               \* detect_government_circular(text), when it has run
    prev_verdict,          \* its result for the document before the extension
    strict_verdict,        \* is_government_circular(text), when it has run
    n_sentences,           \* generate_official_summary's argument sentences
    top_idx,               \* its top_idx (line 113)
    official_summary,      \* its result
    n_bullets,             \* generate_simplified_summary's argument bullets
    word_limit,            \* and its argument max_words_per_bullet
    accepted,              \* chosen_indices after the first loop (line 179)
    chosen_sorted,         \* chosen_indices after the sort (line 190)
    bullet_list,           \* bullets_out
    simplified_summary,    \* its result
    shorten_max_words,     \* _shorten_sentence's argument max_words
    shortened,             \* _shorten_sentence(text, max_words), when it has run
    sentence_list,         \* _split_sentences(text), when it has run
    noise_arg,             \* remove_common_noise's argument noise_phrases
    denoised,              \* remove_common_noise(text, noise_arg)
    headerless,            \* remove_headers_footers(text), when it has run
    calls,                 \* the local variables of the calls in progress
    invoked,               \* how many calls have been started
    module_tables,         \* the module-level tables the calls read
    session,               \* st.session_state of the Streamlit application
    uploaded,              \* the file in the st.file_uploader of the first tab
    ui_event,              \* what the user did to start the last run of main
    consented,             \* the text on show when the user last chose "Yes, continue"
    tts_module,            \* TTS_AVAILABLE and GTTS_AVAILABLE of tts_generator
    _tts_generator_instance, \* the global of tts_generator
    tts_call,              \* the last call of tts_generator and how it ended
    _tokenizer,            \* the global of translator
    _model,                \* the global of translator
    _lang_map,             \* the global of translator
    translator_call        \* the last call of translator and how it ended

docVars == <<text, fed>>
cleanerVars == <<remove_page_numbers, cleaned, recleaned>>
classifierVars == <<verdict, prev_verdict, strict_verdict>>
officialVars == <<n_sentences, top_idx, official_summary>>
simplifiedVars ==
    <<n_bullets, word_limit, accepted, chosen_sorted, bullet_list,
      simplified_summary>>
helperVars ==
    <<shorten_max_words, shortened, sentence_list, noise_arg, denoised, headerless>>
callVars == <<calls, invoked, module_tables>>
uiVars == <<session, uploaded, ui_event, consented>>
ttsVars == <<tts_module, _tts_generator_instance, tts_call>>
translatorVars == <<_tokenizer, _model, _lang_map, translator_call>>
appVars == <<uiVars, ttsVars, translatorVars>>
otherVars == <<helperVars, callVars, appVars>>
coreVars ==
    <<docVars, pc, cleanerVars, classifierVars, officialVars, simplifiedVars,
      helperVars, callVars>>
vars ==
    <<docVars, pc, cleanerVars, classifierVars, officialVars, simplifiedVars,
      otherVars>>

----------------------------------------------------------------------------
(* Bounds of the model. *)

\* the longest document of each kind of run, in fragments
MaxCleanPieces == 3
MaxClassifyPieces == 3
MaxSummaryPieces == 3
MaxBlankPieces == 3
MaxShortenPieces == 3
MaxInvocations == 2
MaxSplitPieces == 3
MaxScenarioPieces == 3
MaxNoisePieces == 3
MaxVariantPieces == 3
MaxHeaderPieces == 4

----------------------------------------------------------------------------
(* Characters and character classes (Python's str methods and re classes). *)

Min(S) == CHOOSE x \in S : \A y \in S : x <= y
Max(S) == CHOOSE x \in S : \A y \in S : x >= y

AsciiUpper == <<"A","B","C","D","E","F","G","H","I","J","K","L","M",
                "N","O","P","Q","R","S","T","U","V","W","X","Y","Z">>
AsciiLower == <<"a","b","c","d","e","f","g","h","i","j","k","l","m",
                "n","o","p","q","r","s","t","u","v","w","x","y","z">>
UpperSet == {AsciiUpper[i] : i \in 1..26}
LowerSet == {AsciiLower[i] : i \in 1..26}
\* [a-zA-Z]
AsciiLetter == UpperSet \cup LowerSet
\* \d (the digits of the model's alphabet are the ASCII ones)
Digit == {"0","1","2","3","4","5","6","7","8","9"}
\* \s, and what str.strip() strips
Whitespace == {" ", "\t", "\n", "\r", "\f"}
\* the Tamil block ஀-௿: the code points the model's texts use
TamilBlock == {"u0B85", "u0BB0", "u0B9A", "u0BC1"}
\* the letters among them (category Lo): the others are combining signs
TamilLetter == {"u0B85", "u0BB0", "u0B9A"}
\* letters of the other Indic blocks (category Lo): Devanagari sa, Telugu pa
IndicLetter == {"u0938", "u0C2A"}
\* \w: Unicode letters and digits, and the underscore
WordChar == AsciiLetter \cup Digit \cup {"_"} \cup TamilLetter \cup IndicLetter
\* [​-‍﻿]
ZeroWidth == {"u200B", "u200C", "u200D", "uFEFF"}
\* [.,!?;:]
Punct == {".", ",", "!", "?", ";", ":"}

\* the sequence with the elements f[1], ..., f[Len(f)], as a tuple
Tuple(f) == SubSeq(f, 1, Len(f))

\* the lowercase letter of each uppercase one
LowerOf ==
    [c \in UpperSet |-> AsciiLower[CHOOSE i \in 1..26 : AsciiUpper[i] = c]]

\* str.lower() of one character
lowerChar(c) == IF c \in UpperSet THEN LowerOf[c] ELSE c

\* str.lower()
lower(s) == Tuple([i \in 1..Len(s) |-> lowerChar(s[i])])

\* s[a:b] with 1-based inclusive ends, empty when b < a
Slice(s, a, b) == IF b < a THEN <<>> ELSE SubSeq(s, a, b)

\* a strip() that takes off spaces only
StripStrict(s) ==
    LET keep == {i \in 1..Len(s) : s[i] # " "}
    IN  IF keep = {} THEN <<>> ELSE SubSeq(s, Min(keep), Max(keep))

\* str.strip()
Strip(s) ==
    LET keep == {i \in 1..Len(s) : s[i] \notin Whitespace}
    IN  IF keep = {} THEN <<>> ELSE SubSeq(s, Min(keep), Max(keep))

\* the first position >= p of s whose character is outside class C, Len(s)+1
\* when there is none: where a greedy C* started at p stops
Skip(s, p, C) ==
    LET out == {i \in p..Len(s) : s[i] \notin C}
    IN  IF out = {} THEN Len(s) + 1 ELSE Min(out)

\* s.startswith(pre, p)
StartsAt(s, p, pre) ==
    /\ p + Len(pre) - 1 <= Len(s)
    /\ \A i \in 1..Len(pre) : s[p + i - 1] = pre[i]

\* needle in s
Contains(s, needle) ==
    \E p \in 1..(Len(s) - Len(needle) + 1) : StartsAt(s, p, needle)

\* s.find(c) for a character c, 0 when absent (Python: -1), else 1-based
Find(s, c) ==
    LET at == {i \in 1..Len(s) : s[i] = c}
    IN  IF at = {} THEN 0 ELSE Min(at)

RECURSIVE Split(_, _)
\* s.split(c) for a separator character c
Split(s, c) ==
    LET i == Find(s, c)
    IN  IF i = 0 THEN <<s>>
        ELSE <<Slice(s, 1, i - 1)>> \o Split(Slice(s, i + 1, Len(s)), c)

RECURSIVE Join(_, _)
\* sep.join(parts)
Join(parts, sep) ==
    IF Len(parts) = 0 THEN <<>>
    ELSE IF Len(parts) = 1 THEN parts[1]
    ELSE parts[1] \o sep \o Join(Tail(parts), sep)

RECURSIVE SubFrom(_, _, _, _)
\* re.sub from position p on: E[q] is the position after the match that starts
\* at q (0 when the pattern does not match there), R[q] its replacement.
\* Matches are taken leftmost and do not overlap.
SubFrom(s, E, R, p) ==
    LET starts == {q \in p..Len(s) : E[q] > q}
    IN  IF starts = {} THEN Slice(s, p, Len(s))
        ELSE LET m == Min(starts)
             IN  Slice(s, p, m - 1) \o R[m] \o SubFrom(s, E, R, E[m])

\* re.sub(pattern, repl, s) for a pattern that never matches the empty string
Sub(s, E, R) == SubFrom(s, E, R, 1)

\* ^ under re.MULTILINE
LineStart(s, p) == p = 1 \/ s[p - 1] = "\n"
\* $ under re.MULTILINE: at the end, or before a newline
LineEnd(s, p) == p = Len(s) + 1 \/ s[p] = "\n"

\* \s*$ (MULTILINE) started at r: the greedy \s* runs to the end of the
\* whitespace and backs off to the last position where $ holds; 0 if none
WsThenLineEnd(s, r) ==
    LET ends == {t \in r..Skip(s, r, Whitespace) : LineEnd(s, t)}
    IN  IF ends = {} THEN 0 ELSE Max(ends)

----------------------------------------------------------------------------
(* text_cleaner.remove_headers_footers *)

str_page == <<"p","a","g","e">>
str_of == <<"o","f">>
str_government_of == <<"g","o","v","e","r","n","m","e","n","t"," ","o","f">>
str_ministry_of == <<"m","i","n","i","s","t","r","y"," ","o","f">>
str_department_of == <<"d","e","p","a","r","t","m","e","n","t"," ","o","f">>
str_annexure == <<"a","n","n","e","x","u","r","e">>
str_appendix == <<"a","p","p","e","n","d","i","x">>

\* r'^Page\s+\d+' (IGNORECASE); l is the line, lowercased
PagePattern(l) ==
    /\ StartsAt(l, 1, str_page)
    /\ LET q == Skip(l, 5, Whitespace)
       IN  q > 5 /\ q <= Len(l) /\ l[q] \in Digit

\* r'^\d+\s*$'
StandaloneNumberPattern(l) ==
    /\ Len(l) >= 1 /\ l[1] \in Digit
    /\ WsThenLineEnd(l, Skip(l, 1, Digit)) = Len(l) + 1

\* r'^Page\s+\d+\s+of\s+\d+'
PageOfPattern(l) ==
    /\ PagePattern(l)
    /\ LET r == Skip(l, Skip(l, 5, Whitespace), Digit)
           u == Skip(l, r, Whitespace)
           v == Skip(l, u + 2, Whitespace)
       IN  /\ u > r /\ StartsAt(l, u, str_of)
           /\ v > u + 2 /\ v <= Len(l) /\ l[v] \in Digit

\* r'^\[?Page\s*\d+\]?'
BracketPagePattern(l) ==
    LET o == IF Len(l) >= 1 /\ l[1] = "[" THEN 2 ELSE 1
        q == Skip(l, o + 4, Whitespace)
    IN  StartsAt(l, o, str_page) /\ q <= Len(l) /\ l[q] \in Digit

\* r'^\s*[-_=]{3,}\s*$' and r'^\s*[•·\*]{3,}\s*$' for the class C
SeparatorPattern(l, C) ==
    LET a == Skip(l, 1, Whitespace)
        b == Skip(l, a, C)
    IN  b - a >= 3 /\ WsThenLineEnd(l, b) = Len(l) + 1

HeaderPrefixes ==
    {str_government_of, str_ministry_of, str_department_of,
     str_annexure, str_appendix}

\* the loop over header_footer_patterns with re.match(..., re.IGNORECASE)
is_header_footer(stripped) ==
    LET l == lower(stripped)
    IN  \/ PagePattern(l)
        \/ StandaloneNumberPattern(l)
        \/ PageOfPattern(l)
        \/ BracketPagePattern(l)
        \/ \E pre \in HeaderPrefixes : StartsAt(l, 1, pre)
        \/ SeparatorPattern(l, {"-", "_", "="})
        \/ SeparatorPattern(l, {"u2022", "u00B7", "*"})

\* a loop that drops the blank lines too
KeepNonBlank(line) == Strip(line) # <<>> /\ ~is_header_footer(Strip(line))

keep_line(line) == Strip(line) = <<>> \/ ~is_header_footer(Strip(line))

remove_headers_footers(s) ==
    Join(SelectSeq(Split(s, "\n"), keep_line), <<"\n">>)

----------------------------------------------------------------------------
(* text_cleaner.remove_page_numbers_pattern *)

Newline(s) == [p \in 1..Len(s) |-> <<"\n">>]

\* r'^\s*\d+\s*$'
StandaloneNumberEnd(s) ==
    [p \in 1..Len(s) |->
        LET q == Skip(s, p, Whitespace)
        IN  IF LineStart(s, p) /\ q <= Len(s) /\ s[q] \in Digit
            THEN WsThenLineEnd(s, Skip(s, q, Digit))
            ELSE 0]

\* r'\n\s*\d+\s*\n'
NumberBetweenNewlinesEnd(s) ==
    [p \in 1..Len(s) |->
        LET q  == Skip(s, p + 1, Whitespace)
            r  == Skip(s, q, Digit)
            nl == {t \in r..(Skip(s, r, Whitespace) - 1) : s[t] = "\n"}
        IN  IF s[p] = "\n" /\ q <= Len(s) /\ s[q] \in Digit /\ nl # {}
            THEN Max(nl) + 1
            ELSE 0]

\* r'^\d+\s*\|'
NumberPipeEnd(s) ==
    [p \in 1..Len(s) |->
        LET u == Skip(s, Skip(s, p, Digit), Whitespace)
        IN  IF LineStart(s, p) /\ s[p] \in Digit /\ u <= Len(s) /\ s[u] = "|"
            THEN u + 1
            ELSE 0]

\* r'\|\s*\d+\s*$'
PipeNumberEnd(s) ==
    [p \in 1..Len(s) |->
        LET q == Skip(s, p + 1, Whitespace)
        IN  IF s[p] = "|" /\ q <= Len(s) /\ s[q] \in Digit
            THEN WsThenLineEnd(s, Skip(s, q, Digit))
            ELSE 0]

remove_page_numbers_pattern(s) ==
    LET s1 == Sub(s, StandaloneNumberEnd(s), Newline(s))
        s2 == Sub(s1, NumberBetweenNewlinesEnd(s1), Newline(s1))
        s3 == Sub(s2, NumberPipeEnd(s2), Newline(s2))
    IN  Sub(s3, PipeNumberEnd(s3), Newline(s3))

----------------------------------------------------------------------------
(* text_cleaner.normalize_whitespace *)

\* a run of the character c of at least n, from p: the position after it
RunEnd(s, c, n) ==
    [p \in 1..Len(s) |->
        LET e == Skip(s, p, {c})
        IN  IF e - p >= n THEN e ELSE 0]

\* re.sub(r' +', ' ', s)
CollapseSpaces(s) == Sub(s, RunEnd(s, " ", 1), [p \in 1..Len(s) |-> <<" ">>])

StripEach(lines) == Tuple([i \in 1..Len(lines) |-> Strip(lines[i])])

\* r' +\n'
SpacesNewlineEnd(s) ==
    [p \in 1..Len(s) |->
        LET e == Skip(s, p, {" "})
        IN  IF e > p /\ e <= Len(s) /\ s[e] = "\n" THEN e + 1 ELSE 0]

normalize_whitespace(s) ==
    LET s1 == Tuple([i \in 1..Len(s) |-> IF s[i] = "\t" THEN " " ELSE s[i]])
        s2 == CollapseSpaces(s1)
        s3 == Join(StripEach(Split(s2, "\n")), <<"\n">>)
        s4 == Sub(s3, RunEnd(s3, "\n", 3), [p \in 1..Len(s3) |-> <<"\n", "\n">>])
    IN  Sub(s4, SpacesNewlineEnd(s4), Newline(s4))

----------------------------------------------------------------------------
(* text_cleaner.remove_special_characters (keep_punctuation = True) *)

\* the complement of [^a-zA-Z0-9஀-௿\s\n.,!?;:\'"()\-–—/]
KeptChars ==
    AsciiLetter \cup Digit \cup TamilBlock \cup Whitespace
    \cup {".", ",", "!", "?", ";", ":", "'", "\"", "(", ")", "-",
          "u2013", "u2014", "/"}

remove_special_characters(s) ==
    CollapseSpaces(
        Tuple([i \in 1..Len(s) |-> IF s[i] \in KeptChars THEN s[i] ELSE " "]))

----------------------------------------------------------------------------
(* text_cleaner.fix_pdf_artifacts *)

\* r'(\w+)-\s*\n\s*(\w+)': the end of the match that starts at p
BrokenWordEnd(s) ==
    [p \in 1..Len(s) |->
        LET h == Skip(s, p, WordChar)
            w == Skip(s, h + 1, Whitespace)
        IN  IF /\ h > p /\ h <= Len(s) /\ s[h] = "-"
               /\ \E t \in (h + 1)..(w - 1) : s[t] = "\n"
               /\ w <= Len(s) /\ s[w] \in WordChar
            THEN Skip(s, w, WordChar)
            ELSE 0]

\* r'\1\2'
BrokenWordJoin(s) ==
    [p \in 1..Len(s) |->
        LET h == Skip(s, p, WordChar)
            w == Skip(s, h + 1, Whitespace)
        IN  Slice(s, p, h - 1) \o Slice(s, w, Skip(s, w, WordChar) - 1)]

\* r'\s+([.,!?;:])'
SpaceBeforePunctEnd(s) ==
    [p \in 1..Len(s) |->
        LET e == Skip(s, p, Whitespace)
        IN  IF e > p /\ e <= Len(s) /\ s[e] \in Punct THEN e + 1 ELSE 0]

\* r'([.,!?;:])([a-zA-Z])'
PunctLetterEnd(s) ==
    [p \in 1..Len(s) |->
        IF s[p] \in Punct /\ p < Len(s) /\ s[p + 1] \in AsciiLetter
        THEN p + 2 ELSE 0]

fix_pdf_artifacts(s) ==
    LET s1 == Sub(s, BrokenWordEnd(s), BrokenWordJoin(s))
        s2 == SelectSeq(s1, LAMBDA c : c \notin ZeroWidth)
        s3 == Sub(s2, RunEnd(s2, ".", 4), [p \in 1..Len(s2) |-> <<".", ".", ".">>])
        s4 == Sub(s3, SpaceBeforePunctEnd(s3),
                  [p \in 1..Len(s3) |-> <<s3[Skip(s3, p, Whitespace)]>>])
    IN  Sub(s4, PunctLetterEnd(s4),
            [p \in 1..Len(s4) |-> <<s4[p], " ", s4[p + 1]>>])

----------------------------------------------------------------------------
(* text_cleaner.remove_common_noise *)

default_noise ==
    << <<"C","o","n","f","i","d","e","n","t","i","a","l">>,
       <<"I","n","t","e","r","n","a","l"," ","U","s","e"," ","O","n","l","y">>,
       <<"N","o","t"," ","f","o","r"," ","P","u","b","l","i","c","a","t","i","o","n">>,
       <<"D","r","a","f","t"," ","C","o","p","y">>,
       <<"F","o","r"," ","O","f","f","i","c","i","a","l"," ","U","s","e">> >>

\* re.escape(phrase) under re.IGNORECASE: the position after the phrase
\* where it starts at p, letters compared without case
PhraseEnd(s, phrase) ==
    [p \in 1..Len(s) |->
        IF StartsAt(lower(s), p, lower(phrase)) THEN p + Len(phrase) ELSE 0]

RECURSIVE remove_phrases(_, _)
\* the loop over phrases: one re.sub after the other
remove_phrases(s, phrases) ==
    IF phrases = <<>> THEN s
    ELSE remove_phrases(Sub(s, PhraseEnd(s, Head(phrases)), [p \in 1..Len(s) |-> <<>>]),
                        Tail(phrases))

\* noise_phrases is None or a list; None and the empty list select default_noise
remove_common_noise(s, noise_phrases) ==
    remove_phrases(s, IF noise_phrases = <<>> THEN default_noise ELSE noise_phrases)

----------------------------------------------------------------------------
(* text_cleaner.clean_text *)

clean_text(s, rpn) ==
    IF s = <<>> \/ Strip(s) = <<>> THEN <<>>
    ELSE LET t1 == remove_headers_footers(s)
             t2 == IF rpn THEN remove_page_numbers_pattern(t1) ELSE t1
             t3 == normalize_whitespace(t2)
             t4 == remove_special_characters(t3)
             t5 == fix_pdf_artifacts(t4)
         IN  Strip(t5)

----------------------------------------------------------------------------
(* pdf_reader.detect_government_circular.  A confidence is held in
   hundredths: 6 is the float 0.06. *)

\* pdf_reader: gov_keywords
gov_keywords ==
    <<
        <<"g","o","v","e","r","n","m","e","n","t"," ","o","f">>,
        <<"g","o","v","t","."," ","o","f">>,
        <<"g",".","o",".">>,
        <<"d","e","p","a","r","t","m","e","n","t"," ","o","f">>,
        <<"m","i","n","i","s","t","r","y"," ","o","f">>,
        <<"s","e","c","r","e","t","a","r","i","a","t">>,
        <<"c","i","r","c","u","l","a","r">>,
        <<"p","r","o","c","e","e","d","i","n","g","s">>,
        <<"o","f","f","i","c","e"," ","o","r","d","e","r">>,
        <<"o","f","f","i","c","i","a","l"," ","m","e","m","o","r","a","n","d",
          "u","m">>,
        <<"d","i","r","e","c","t","o","r","a","t","e">>,
        <<"e","d","u","c","a","t","i","o","n"," ","d","e","p","a","r","t","m",
          "e","n","t">>,
        <<"s","c","h","o","o","l"," ","e","d","u","c","a","t","i","o","n">>,
        <<"r","e","v","e","n","u","e"," ","d","e","p","a","r","t","m","e","n",
          "t">>,
        <<"p","u","b","l","i","c"," ","n","o","t","i","c","e">>,
        <<"a","d","m","i","n","i","s","t","r","a","t","i","v","e">>
    >>

\* round(a / b, 1), in hundredths
RoundOneDecimal(a, b) ==
    LET q == (10 * a) \div b
        r == (10 * a) % b
    IN  10 * (IF 2 * r < b THEN q
              ELSE IF 2 * r > b THEN q + 1
              ELSE IF q % 2 = 0 THEN q ELSE q + 1)

\* round(a / b, 2) in hundredths: to the nearest, a tie to the even digit
\* (a tie of a / 16 is an exact binary fraction, so the float ties too)
Round2(a, b) ==
    LET q == (100 * a) \div b
        r == (100 * a) % b
    IN  IF 2 * r < b THEN q
        ELSE IF 2 * r > b THEN q + 1
        ELSE IF q % 2 = 0 THEN q ELSE q + 1

\* a loop that tests t.startswith(word) instead of word in t
KeywordsAtStart(t) ==
    Cardinality({i \in 1..Len(gov_keywords) : StartsAt(t, 1, gov_keywords[i])})

\* the "for word in gov_keywords: if word in t: score += 1" loop
keyword_score(t) ==
    Cardinality({i \in 1..Len(gov_keywords) : Contains(t, gov_keywords[i])})

\* the verdict of the strict variant: one matching keyword is enough
AtLeastOneMatch(score, max_score) ==
    LET confidence == Round2(score, max_score)
    IN  [is_circular |-> score >= 1, confidence |-> confidence, score |-> score]

\* lines 55-69: the confidence, the threshold and the returned dict
scored_verdict(score, max_score) ==
    LET confidence == Round2(score, max_score)
    IN  [is_circular |-> confidence >= 20,
         confidence  |-> confidence,
         score       |-> score]

detect_government_circular(s) ==
    IF s = <<>> \/ Len(Strip(s)) = 0
    THEN [is_circular |-> FALSE, confidence |-> 0, score |-> 0]
    ELSE scored_verdict(keyword_score(lower(s)), Len(gov_keywords))

----------------------------------------------------------------------------
(* circular_checker.is_government_circular *)

\* circular_checker: GOV_KEYWORDS
GOV_KEYWORDS ==
    <<
        <<"g","o","v","e","r","n","m","e","n","t">>,
        <<"g","o","v","t">>,
        <<"d","e","p","a","r","t","m","e","n","t">>,
        <<"m","i","n","i","s","t","r","y">>,
        <<"s","e","c","r","e","t","a","r","y">>,
        <<"c","i","r","c","u","l","a","r">>,
        <<"n","o","t","i","f","i","c","a","t","i","o","n">>,
        <<"o","r","d","e","r">>,
        <<"p","r","o","c","e","e","d","i","n","g","s">>,
        <<"o","f","f","i","c","e"," ","m","e","m","o","r","a","n","d","u",
          "m">>,
        <<"o","f","f","i","c","e"," ","o","r","d","e","r">>,
        <<"o","f","f","i","c","i","a","l">>,
        <<"g",".","o">>,
        <<"g",".","o",".">>,
        <<"u0B85","u0BB0","u0B9A","u0BC1">>,
        <<"u0B9A","u0BC1","u0BB1","u0BCD","u0BB1","u0BB1","u0BBF","u0B95",
          "u0BCD","u0B95","u0BC8">>,
        <<"u0B85","u0BB1","u0BBF","u0BB5","u0BBF","u0BAA","u0BCD","u0BAA",
          "u0BC1">>,
        <<"u0BA4","u0BC1","u0BB1","u0BC8">>,
        <<"u0B89","u0BA4","u0BCD","u0BA4","u0BB0","u0BB5","u0BC1">>,
        <<"u0B85","u0BB0","u0B9A","u0BBE","u0BA3","u0BC8">>,
        <<"u0B95","u0BB2","u0BCD","u0BB5","u0BBF","u0BA4","u0BCD","u0BA4",
          "u0BC1","u0BB1","u0BC8">>,
        <<"u0BA8","u0BBF","u0BA4","u0BBF","u0BA4","u0BCD","u0BA4","u0BC1",
          "u0BB1","u0BC8">>,
        <<"u0938","u0930","u0915","u093E","u0930">>,
        <<"u0935","u093F","u092D","u093E","u0917">>,
        <<"u092E","u0902","u0924","u094D","u0930","u093E","u0932","u092F">>,
        <<"u0905","u0927","u093F","u0938","u0942","u091A","u0928","u093E">>,
        <<"u0906","u0926","u0947","u0936">>,
        <<"u092A","u0930","u093F","u092A","u0924","u094D","u0930">>,
        <<"u0930","u093E","u091C","u094D","u092F"," ","u0938","u0930","u0915",
          "u093E","u0930">>,
        <<"u0915","u0947","u0902","u0926","u094D","u0930"," ","u0938","u0930",
          "u0915","u093E","u0930">>,
        <<"u0C2A","u0C4D","u0C30","u0C2D","u0C41","u0C24","u0C4D","u0C35",
          "u0C02">>,
        <<"u0C35","u0C3F","u0C2D","u0C3E","u0C17","u0C02">>,
        <<"u0C38","u0C30","u0C4D","u0C15","u0C4D","u0C2F","u0C41","u0C32",
          "u0C30","u0C4D">>,
        <<"u0C2A","u0C4D","u0C30","u0C15","u0C1F","u0C28">>,
        <<"u0CB8","u0CB0","u0CCD","u0C95","u0CBE","u0CB0","u0CCD">>,
        <<"u0CB5","u0CBF","u0CAD","u0CBE","u0C97">>,
        <<"u0C85","u0CA7","u0CBF","u0CB8","u0CC2","u0C9A","u0CA8","u0CC6">>,
        <<"u0C86","u0CA6","u0CC7","u0CB6">>,
        <<"u0D38","u0D7C","u0D15","u0D4D","u0D15","u0D3E","u0D7C">>,
        <<"u0D35","u0D15","u0D41","u0D2A","u0D4D","u0D2A","u0D4D">>,
        <<"u0D05","u0BB1","u0D3F","u0D35","u0D3F","u0D2A","u0D4D","u0D2A",
          "u0D4D">>,
        <<"u0D38","u0D7C","u0D15","u0D41","u0D32","u0D7C">>
    >>

\* the HEADER_PATTERNS that are plain words
HEADER_LITERALS ==
    <<
        <<"u0B85","u0BB0","u0B9A","u0BC1"," ","u0B85","u0BB1","u0BBF","u0BB5",
          "u0BBF","u0BAA","u0BCD","u0BAA","u0BC1">>,
        <<"u0BA4","u0BAE","u0BBF","u0BB4","u0BCD","u0BA8","u0BBE","u0B9F",
          "u0BC1"," ","u0B85","u0BB0","u0B9A","u0BC1">>,
        <<"u0938","u0930","u0915","u093E","u0930">>,
        <<"u092D","u093E","u0930","u0924"," ","u0938","u0930","u0915","u093E",
          "u0930">>
    >>

str_government_of_sp == str_government_of \o <<" ">>
str_department_of_sp == str_department_of \o <<" ">>
str_ministry_of_sp == str_ministry_of \o <<" ">>
str_govt == <<"g","o","v","t">>
str_sp_of_sp == <<" ","o","f"," ">>

\* re.search(lit + r'[a-zA-Z ]+', t): the literal, then one such character
LiteralThenName(t, lit) ==
    \E p \in 1..Len(t) :
        /\ StartsAt(t, p, lit)
        /\ p + Len(lit) <= Len(t)
        /\ t[p + Len(lit)] \in AsciiLetter \cup {" "}

\* re.search(r"govt\.? of [a-zA-Z ]+", t)
GovtOfPattern(t) ==
    \/ LiteralThenName(t, str_govt \o str_sp_of_sp)
    \/ LiteralThenName(t, str_govt \o <<".">> \o str_sp_of_sp)

\* the loop over HEADER_PATTERNS with re.search
header_match(t) ==
    \/ LiteralThenName(t, str_government_of_sp)
    \/ GovtOfPattern(t)
    \/ LiteralThenName(t, str_department_of_sp)
    \/ LiteralThenName(t, str_ministry_of_sp)
    \/ \E i \in 1..Len(HEADER_LITERALS) : Contains(t, HEADER_LITERALS[i])

\* a loop that tests text_lower.startswith(kw.lower())
KeywordPrefix(t) ==
    \E i \in 1..Len(GOV_KEYWORDS) : StartsAt(t, 1, lower(GOV_KEYWORDS[i]))

\* the loop over GOV_KEYWORDS with "kw.lower() in text_lower"
keyword_match(t) ==
    \E i \in 1..Len(GOV_KEYWORDS) : Contains(t, lower(GOV_KEYWORDS[i]))

is_government_circular(s) ==
    IF s = <<>> \/ Len(Strip(s)) < 10 THEN FALSE
    ELSE LET text_lower == lower(s)
         IN  keyword_match(text_lower) \/ header_match(text_lower)

----------------------------------------------------------------------------
(* summarizer: sentences, tokens and scores *)

\* _STOPWORDS
_STOPWORDS ==
    {
      <<"t","h","e">>, <<"a","n","d">>, <<"a">>, <<"a","n">>, <<"o","f">>,
      <<"i","n">>, <<"o","n">>, <<"f","o","r">>, <<"t","o">>, <<"i","s">>,
      <<"a","r","e">>, <<"w","a","s">>, <<"w","e","r","e">>,
      <<"t","h","a","t">>, <<"t","h","i","s">>, <<"w","i","t","h">>,
      <<"b","y">>, <<"a","s">>, <<"b","e">>, <<"w","i","l","l">>,
      <<"s","h","a","l","l">>, <<"h","a","s">>, <<"h","a","v","e">>,
      <<"i","t">>, <<"a","t">>, <<"f","r","o","m">>, <<"o","r">>,
      <<"w","h","i","c","h">>, <<"m","a","y">>, <<"c","a","n">>,
      <<"s","h","o","u","l","d">>, <<"t","h","e","i","r">>, <<"i","t","s">>,
      <<"a","l","l">>, <<"s","u","c","h">>
    }

\* _DIRECTIVE_KEYWORDS
_DIRECTIVE_KEYWORDS ==
    {
      <<"m","u","s","t">>, <<"s","h","a","l","l">>,
      <<"s","h","o","u","l","d">>, <<"r","e","q","u","i","r","e","d">>,
      <<"i","n","s","t","r","u","c","t">>,
      <<"i","n","s","t","r","u","c","t","e","d">>,
      <<"e","n","s","u","r","e">>, <<"r","e","q","u","i","r","e">>,
      <<"i","m","p","l","e","m","e","n","t">>,
      <<"c","o","m","p","l","i","a","n","c","e">>,
      <<"c","o","m","p","l","y">>, <<"n","o","t","i","f","y">>,
      <<"m","a","n","d","a","t","o","r","y">>, <<"d","i","r","e","c","t">>,
      <<"o","r","d","e","r">>, <<"i","s","s","u","e">>,
      <<"i","s","s","u","e","d">>, <<"d","e","a","d","l","i","n","e">>,
      <<"e","f","f","e","c","t","i","v","e">>
    }

\* [.!?], the lookbehind of _SENT_SPLIT_RE and the closing marks of a summary
Terminal == {".", "!", "?"}
\* [A-Za-z0-9]
AlNum == AsciiLetter \cup Digit

\* seq[:k] of Python, k of either sign
PyPrefix(seq, k) ==
    IF k >= 0 THEN Slice(seq, 1, IF k < Len(seq) THEN k ELSE Len(seq))
    ELSE Slice(seq, 1, Len(seq) + k)

\* sorted(seq) of distinct integers
SortedAsc(seq) == SortSeq(seq, LAMBDA a, b : a < b)

\* str.rstrip()
RStrip(s) ==
    LET keep == {i \in 1..Len(s) : s[i] \notin Whitespace}
    IN  IF keep = {} THEN <<>> ELSE SubSeq(s, 1, Max(keep))

\* str.rstrip(chars)
RStripChars(s, C) ==
    LET keep == {i \in 1..Len(s) : s[i] \notin C}
    IN  IF keep = {} THEN <<>> ELSE SubSeq(s, 1, Max(keep))

RECURSIVE WordsFrom(_, _)
WordsFrom(s, p) ==
    LET a == Skip(s, p, Whitespace)
        b == Min({i \in a..(Len(s) + 1) : i = Len(s) + 1 \/ s[i] \in Whitespace})
    IN  IF a > Len(s) THEN <<>>
        ELSE <<SubSeq(s, a, b - 1)>> \o WordsFrom(s, b)

\* str.split(): the words between runs of whitespace
Words(s) == WordsFrom(s, 1)

RECURSIVE ReSplitFrom(_, _)
\* _SENT_SPLIT_RE.split from position a on: a separator is a whole run of
\* whitespace whose first character follows one of . ! ?
ReSplitFrom(s, a) ==
    LET starts == {p \in a..Len(s) :
                      s[p] \in Whitespace /\ p > 1 /\ s[p - 1] \in Terminal}
    IN  IF starts = {} THEN <<Slice(s, a, Len(s))>>
        ELSE LET p == Min(starts)
             IN  <<Slice(s, a, p - 1)>> \o ReSplitFrom(s, Skip(s, p, Whitespace))

\* .replace("\r\n", "\n")
CrLfEnd(s) ==
    [p \in 1..Len(s) |->
        IF s[p] = "\r" /\ p < Len(s) /\ s[p + 1] = "\n" THEN p + 2 ELSE 0]

\* .replace("\r\n", "\n")
ReplaceCrLf(s) == Sub(s, CrLfEnd(s), Newline(s))

\* .replace("\t", " ")
ReplaceTabs(s) == Tuple([i \in 1..Len(s) |-> IF s[i] = "\t" THEN " " ELSE s[i]])

\* [s.strip() for s in parts if s.strip()]
_split_sentences(s) ==
    StripEach(SelectSeq(ReSplitFrom(ReplaceTabs(ReplaceCrLf(Strip(s))), 1),
                        LAMBDA x : Strip(x) # <<>>))

RECURSIVE TokensFrom(_, _)
\* re.findall(r"[A-Za-z0-9]+(?:'[A-Za-z0-9]+)?", s) from position p on
TokensFrom(s, p) ==
    LET a == Min({i \in p..(Len(s) + 1) : i = Len(s) + 1 \/ s[i] \in AlNum})
        b == Skip(s, a, AlNum)
        e == IF b < Len(s) /\ s[b] = "'" /\ s[b + 1] \in AlNum
             THEN Skip(s, b + 1, AlNum) ELSE b
    IN  IF a > Len(s) THEN <<>>
        ELSE <<SubSeq(s, a, e - 1)>> \o TokensFrom(s, e)

_tokenize_words(s) == TokensFrom(lower(s), 1)

\* [w for w in _tokenize_words(s) if w not in _STOPWORDS]
content_tokens(s) == SelectSeq(_tokenize_words(s), LAMBDA w : w \notin _STOPWORDS)

RECURSIVE Concat(_)
Concat(seqs) == IF seqs = <<>> THEN <<>> ELSE Head(seqs) \o Concat(Tail(seqs))

RECURSIVE SumSeq(_)
SumSeq(ns) == IF ns = <<>> THEN 0 ELSE Head(ns) + SumSeq(Tail(ns))

\* freq[w] before it is normalised: the count of w among the content tokens
\* of the document
freq(all, w) == Cardinality({k \in 1..Len(all) : all[k] = w})

\* maxf = max(freq.values()), 0 for a document without content tokens
maxf(all) == IF all = <<>> THEN 0 ELSE Max({freq(all, all[k]) : k \in 1..Len(all)})

\* The score of sentence i is the real number
\*     raw / (maxf * sqrt(ntok))       (0 when ntok = 0)
\* where raw is the sum over its content tokens of the token's count in the
\* document, maxf the largest count and ntok the number of its content
\* tokens.  The model keeps the three integers and compares scores exactly.
scores_of(toks, all, largest) ==
    Tuple([i \in 1..Len(toks) |->
        [raw  |-> SumSeq(Tuple([k \in 1..Len(toks[i]) |-> freq(all, toks[i][k])])),
         maxf |-> largest,
         ntok |-> Len(toks[i])]])

document_scores(toks, all) == scores_of(toks, all, maxf(all))

token_scores(toks) == document_scores(toks, Concat(toks))

_score_sentences(sentences) ==
    token_scores(Tuple([i \in 1..Len(sentences) |-> content_tokens(sentences[i])]))

_contains_directive(sentence) ==
    \E kw \in _DIRECTIVE_KEYWORDS : Contains(lower(sentence), kw)

\* a sort that puts the later of two equal scores first
RankTiesReversed(n, greater) ==
    LET before(j, i) == <<j, i>> \in greater \/ (<<i, j>> \notin greater /\ j > i)
        place(i) == 1 + Cardinality({j \in 1..n : j # i /\ before(j, i)})
    IN  Tuple([r \in 1..n |-> CHOOSE i \in 1..n : place(i) = r])

\* sorted(pairs, key=score, reverse=True) as the indices 1..n by falling
\* score, equal scores in the original order (the sort is stable); greater
\* holds the pairs <<j, i>> with the score of j above the score of i
RankDescending(n, greater) ==
    LET before(j, i) == <<j, i>> \in greater \/ (<<i, j>> \notin greater /\ j < i)
        place(i) == 1 + Cardinality({j \in 1..n : j # i /\ before(j, i)})
    IN  Tuple([r \in 1..n |-> CHOOSE i \in 1..n : place(i) = r])

----------------------------------------------------------------------------
(* summarizer.generate_official_summary *)

\* a weight without the directive boost
UnboostedWeight(sents, scores, i) ==
    scores[i].raw * 5 * (23 * Len(sents) - 3 * (i - 1))

\* the final score of sentence i (1-based) of n is
\*     score * (1.6 if directive) * (1 + 0.15 * (1 - (i-1)/n))
\*   = raw * (8 or 5) * (23n - 3(i-1)) / (maxf * sqrt(ntok) * 5 * 20n);
\* the numerator without the factors every sentence shares
official_weight(sents, scores, i) ==
    scores[i].raw
    * (IF _contains_directive(sents[i]) THEN 8 ELSE 5)
    * (23 * Len(sents) - 3 * (i - 1))

\* P * n > Q * m for P, Q >= 0 and m, n >= 1, by division, so that no
\* intermediate value exceeds P or Q
ProductGreater(P, n, Q, m) ==
    IF m <= n
    THEN P - (Q \div n) * m > ((Q % n) * m) \div n
    ELSE Q - (P \div m) * n <= ((P % m) * n - 1) \div m

\* a / sqrt(m) > b / sqrt(n) for a, b >= 0 (0 / sqrt(0) is 0)
GreaterOverRoot(a, m, b, n) ==
    IF a = 0 THEN FALSE
    ELSE IF b = 0 THEN TRUE
    ELSE ProductGreater(a * a, n, b * b, m)

\* boosted: the weight and the token count of every sentence
boosted(sents, scores) ==
    Tuple([i \in 1..Len(sents) |->
        [w |-> official_weight(sents, scores, i), ntok |-> scores[i].ntok]])

\* the pairs of sentences with the first boosted score above the second
boosted_greater(keys) ==
    {p \in (1..Len(keys)) \X (1..Len(keys)) :
        GreaterOverRoot(keys[p[1]].w, keys[p[1]].ntok,
                        keys[p[2]].w, keys[p[2]].ntok)}

\* boosted_sorted, as sentence indices
official_ranking(sents) ==
    RankDescending(Len(sents),
                   boosted_greater(boosted(sents, _score_sentences(sents))))

\* the top indices left in the order of boosted_sorted
TopUnsorted(sents, sentences) == PyPrefix(official_ranking(sents), sentences)

\* top_idx = sorted([idx for idx, _ in boosted_sorted[:sentences]])
official_top_idx(sents, sentences) ==
    SortedAsc(PyPrefix(official_ranking(sents), sentences))

\* "if chosen[i] and chosen[i][-1] not in '.!?': chosen[i] += '.'"
EnsureTerminal(s) ==
    IF s # <<>> /\ s[Len(s)] \notin Terminal THEN s \o <<".">> ELSE s

\* the local variables of generate_official_summary when it returns; a call
\* that returns early has selected nothing
official_locals(s, sentences) ==
    IF s = <<>> \/ Strip(s) = <<>> THEN [top_idx |-> <<>>, summary |-> <<>>]
    ELSE LET sents == _split_sentences(s)
             top == official_top_idx(sents, sentences)
             chosen == Tuple([r \in 1..Len(top) |->
                                 EnsureTerminal(RStrip(sents[top[r]]))])
         IN  IF sents = <<>> THEN [top_idx |-> <<>>, summary |-> <<>>]
             ELSE [top_idx |-> top, summary |-> Strip(Join(chosen, <<" ">>))]

generate_official_summary(s, sentences) == official_locals(s, sentences).summary

----------------------------------------------------------------------------
(* summarizer._shorten_sentence and generate_simplified_summary *)

\* a variant that looks for the comma in the first max_words words only
CommaWithinLimit(s, max_words) ==
    LET words == Words(s)
        first == Join(PyPrefix(words, max_words), <<" ">>)
        comma_pos == Find(first, ",")
    IN  IF Len(words) <= max_words THEN Strip(s)
        ELSE IF comma_pos # 0
        THEN RStripChars(Strip(Slice(first, 1, comma_pos - 1)), {" ", ",", ";"})
             \o <<".">>
        ELSE RStripChars(Strip(first), {" ", ",", ";"}) \o <<".", ".", ".">>

_shorten_sentence(s, max_words) ==
    LET words == Words(s)
        first == Join(PyPrefix(words, max_words + 5), <<" ">>)
        comma_pos == Find(first, ",")
    IN  IF Len(words) <= max_words THEN Strip(s)
        ELSE IF comma_pos # 0
        THEN RStripChars(Strip(Slice(first, 1, comma_pos - 1)), {" ", ",", ";"})
             \o <<".">>
        ELSE RStripChars(Strip(Join(PyPrefix(words, max_words), <<" ">>)),
                         {" ", ",", ";"}) \o <<".", ".", ".">>

\* the final score of a sentence is
\*     score * (1 / (1 + length/25)) * (1.4 if directive)
\*   = raw * 25 * (7 or 5) / (maxf * sqrt(ntok) * (25 + length) * 5)
\* with length = len(_tokenize_words(sent)); i ranks above j when
\*     w_i / ((25 + length_i) sqrt(ntok_i)) > w_j / ((25 + length_j) sqrt(ntok_j))
\* ranked: the weight, the length and the token count of every sentence
ranked_pairs(sents, scores) ==
    Tuple([i \in 1..Len(sents) |->
        [w |-> scores[i].raw * (IF _contains_directive(sents[i]) THEN 7 ELSE 5),
         length |-> Len(_tokenize_words(sents[i])),
         ntok |-> scores[i].ntok]])

\* the pairs of sentences with the first final score above the second
ranked_greater(keys) ==
    {p \in (1..Len(keys)) \X (1..Len(keys)) :
        GreaterOverRoot(keys[p[1]].w * (25 + keys[p[2]].length), keys[p[1]].ntok,
                        keys[p[2]].w * (25 + keys[p[1]].length), keys[p[2]].ntok)}

\* ranked_sorted, as sentence indices
simplified_ranking(sents) ==
    RankDescending(Len(sents),
                   ranked_greater(ranked_pairs(sents, _score_sentences(sents))))

\* i in an index list
InSeq(x, seq) == \E k \in 1..Len(seq) : seq[k] = x

\* only "candidate in sents[j].lower()"
OneWayDuplicate(a, b) == Contains(lower(b), lower(a))

\* "candidate in sents[j].lower() or sents[j].lower() in candidate"
near_duplicate(a, b) ==
    Contains(lower(b), lower(a)) \/ Contains(lower(a), lower(b))

RECURSIVE first_pass(_, _, _, _, _)
\* lines 167-179 from rank r on: accept a sentence that is no near-duplicate
\* of an accepted one, until bullets are accepted
first_pass(sents, ranked, bullets, chosen, r) ==
    IF r > Len(ranked) \/ Len(chosen) >= bullets THEN chosen
    ELSE IF \E k \in 1..Len(chosen) :
                near_duplicate(sents[ranked[r]], sents[chosen[k]])
    THEN first_pass(sents, ranked, bullets, chosen, r + 1)
    ELSE first_pass(sents, ranked, bullets, Append(chosen, ranked[r]), r + 1)

\* a second loop that adds nothing
NoBackfill(ranked, bullets, chosen, r) == chosen

RECURSIVE backfill(_, _, _, _)
\* lines 182-187 from rank r on
backfill(ranked, bullets, chosen, r) ==
    IF r > Len(ranked) THEN chosen
    ELSE LET c2 == IF InSeq(ranked[r], chosen) THEN chosen
                   ELSE Append(chosen, ranked[r])
         IN  IF Len(c2) >= bullets THEN c2
             ELSE backfill(ranked, bullets, c2, r + 1)

\* lines 181-190: the backfill, then chosen_indices = sorted(chosen_indices)
chosen_indices(ranked, bullets, chosen) ==
    SortedAsc(IF Len(chosen) < bullets
              THEN backfill(ranked, bullets, chosen, 1)
              ELSE chosen)

\* lines 192-199: one bullet
bullet(sentence, max_words_per_bullet) ==
    <<"-", " ">>
    \o EnsureTerminal(Strip(_shorten_sentence(Strip(sentence), max_words_per_bullet)))

NothingSelected ==
    [accepted |-> <<>>, chosen_indices |-> <<>>, bullets_out |-> <<>>]

\* the local variables of generate_simplified_summary when it returns:
\* chosen_indices after the first loop (accepted) and after the sort, and
\* bullets_out; a call that returns early has selected nothing
simplified_locals(s, bullets, max_words_per_bullet) ==
    IF s = <<>> \/ Strip(s) = <<>> THEN NothingSelected
    ELSE LET sents == _split_sentences(s)
             ranked == simplified_ranking(sents)
             acc == first_pass(sents, ranked, bullets, <<>>, 1)
             chosen == chosen_indices(ranked, bullets, acc)
         IN  IF sents = <<>> THEN NothingSelected
             ELSE [accepted |-> acc,
                   chosen_indices |-> chosen,
                   bullets_out |->
                       Tuple([r \in 1..Len(chosen) |->
                                 bullet(sents[chosen[r]], max_words_per_bullet)])]

generate_simplified_summary(s, bullets, max_words_per_bullet) ==
    Join(simplified_locals(s, bullets, max_words_per_bullet).bullets_out, <<"\n">>)

----------------------------------------------------------------------------
(* Calls in progress.  A slot holds the local variables of one call: the
   function, its argument text, the statement it has reached (stage, and the
   loop index i) and the locals of the functions: the text being cleaned or
   the lowercased text (local), score of detect_government_circular, and
   sents, freq (as the content tokens counted so far, and maxf as largest)
   and scores of a summarizer and its call of _score_sentences.  The
   summarizers are asked for one sentence and for one bullet of 18 words. *)

CallSlots == {"a", "b"}

CallFunctions ==
    {"clean_text", "detect_government_circular", "is_government_circular",
     "generate_official_summary", "generate_simplified_summary"}

\* the tables at module level: summarizer.py and circular_checker.py
ModuleTables ==
    [_STOPWORDS |-> _STOPWORDS,
     _DIRECTIVE_KEYWORDS |-> _DIRECTIVE_KEYWORDS,
     GOV_KEYWORDS |-> GOV_KEYWORDS,
     HEADER_LITERALS |-> HEADER_LITERALS]

IdleCall ==
    [fn |-> "", text |-> <<>>, stage |-> "idle", i |-> 0, local |-> <<>>,
     score |-> 0, sents |-> <<>>, counted |-> <<>>, largest |-> 0,
     scores |-> <<>>, result |-> <<>>]

\* "return value"
Returned(call, value) == [call EXCEPT !.stage = "done", !.result = <<value>>]

\* a freq dictionary that all calls share: the one of the first slot
SharedFreq(cs, c) == cs["a"].counted

\* "freq = {}": the dictionary is a local variable of the call
own_freq(cs, c) == cs[c].counted

\* one statement of clean_text (remove_page_numbers = True)
clean_step(call) ==
    CASE call.stage = "start" ->
            IF call.text = <<>> \/ Strip(call.text) = <<>> THEN Returned(call, <<>>)
            ELSE [call EXCEPT !.stage = "step1", !.local = call.text]
      [] call.stage = "step1" ->
            [call EXCEPT !.stage = "step2", !.local = remove_headers_footers(@)]
      [] call.stage = "step2" ->
            [call EXCEPT !.stage = "step3", !.local = remove_page_numbers_pattern(@)]
      [] call.stage = "step3" ->
            [call EXCEPT !.stage = "step4", !.local = normalize_whitespace(@)]
      [] call.stage = "step4" ->
            [call EXCEPT !.stage = "step5", !.local = remove_special_characters(@)]
      [] call.stage = "step5" ->
            [call EXCEPT !.stage = "step6", !.local = fix_pdf_artifacts(@)]
      [] call.stage = "step6" -> Returned(call, Strip(call.local))

\* one statement of detect_government_circular: the guard, an iteration of
\* the loop over gov_keywords, or the return
detect_step(call) ==
    CASE call.stage = "start" ->
            IF call.text = <<>> \/ Len(Strip(call.text)) = 0
            THEN Returned(call, [is_circular |-> FALSE, confidence |-> 0, score |-> 0])
            ELSE [call EXCEPT !.stage = "keywords", !.local = lower(call.text),
                              !.i = 1, !.score = 0]
      [] call.stage = "keywords" /\ call.i <= Len(gov_keywords) ->
            [call EXCEPT !.i = @ + 1,
                         !.score = IF Contains(call.local, gov_keywords[call.i])
                                   THEN @ + 1 ELSE @]
      [] call.stage = "keywords" /\ call.i > Len(gov_keywords) ->
            Returned(call, scored_verdict(call.score, Len(gov_keywords)))

\* one statement of is_government_circular: the guard, an iteration of the
\* loop over GOV_KEYWORDS, or the loop over HEADER_PATTERNS
strict_step(call, keywords) ==
    CASE call.stage = "start" ->
            IF call.text = <<>> \/ Len(Strip(call.text)) < 10 THEN Returned(call, FALSE)
            ELSE [call EXCEPT !.stage = "keywords", !.local = lower(call.text), !.i = 1]
      [] call.stage = "keywords" /\ call.i <= Len(keywords) ->
            IF Contains(call.local, lower(keywords[call.i])) THEN Returned(call, TRUE)
            ELSE [call EXCEPT !.i = @ + 1]
      [] call.stage = "keywords" /\ call.i > Len(keywords) ->
            [call EXCEPT !.stage = "headers"]
      [] call.stage = "headers" -> Returned(call, header_match(call.local))

\* what generate_official_summary does with the scores (sentences = 1)
official_select(call) ==
    LET top == SortedAsc(PyPrefix(
                   RankDescending(Len(call.sents),
                                  boosted_greater(boosted(call.sents, call.scores))),
                   1))
    IN  Strip(Join(Tuple([r \in 1..Len(top) |->
                             EnsureTerminal(RStrip(call.sents[top[r]]))]),
                   <<" ">>))

\* what generate_simplified_summary does with the scores (bullets = 1,
\* max_words_per_bullet = 18)
simplified_select(call, ranked) ==
    LET chosen == chosen_indices(ranked, 1, first_pass(call.sents, ranked, 1, <<>>, 1))
    IN  Join(Tuple([r \in 1..Len(chosen) |-> bullet(call.sents[chosen[r]], 18)]),
             <<"\n">>)

\* one statement of a summarizer: the guards and the split, an iteration of
\* one of the two loops of _score_sentences over the sentences, the
\* normalisation between them, or the selection; freq is the dictionary the
\* call counts in
summary_step(call, freq_counted, stopwords) ==
    LET n == Len(call.sents)
        tokens == SelectSeq(_tokenize_words(call.sents[call.i]),
                            LAMBDA w : w \notin stopwords)
        sents == _split_sentences(call.text)
    IN  CASE call.stage = "start" ->
                IF call.text = <<>> \/ Strip(call.text) = <<>> \/ sents = <<>>
                THEN Returned(call, <<>>)
                ELSE [call EXCEPT !.stage = "count", !.sents = sents, !.i = 1]
          [] call.stage = "count" /\ call.i <= n ->
                [call EXCEPT !.counted = freq_counted \o tokens, !.i = @ + 1]
          [] call.stage = "count" /\ call.i > n /\ freq_counted = <<>> ->
                [call EXCEPT !.stage = "select",
                             !.scores = Tuple([k \in 1..n |->
                                 [raw |-> 0, maxf |-> 0, ntok |-> 0]])]
          [] call.stage = "count" /\ call.i > n /\ freq_counted # <<>> ->
                [call EXCEPT !.stage = "score", !.largest = maxf(freq_counted),
                             !.i = 1]
          [] call.stage = "score" /\ call.i <= n ->
                [call EXCEPT !.i = @ + 1,
                             !.scores = Append(@,
                                 [raw |-> SumSeq(Tuple([k \in 1..Len(tokens) |->
                                              freq(freq_counted, tokens[k])])),
                                  maxf |-> call.largest,
                                  ntok |-> Len(tokens)])]
          [] call.stage = "score" /\ call.i > n -> [call EXCEPT !.stage = "select"]
          [] call.stage = "select" /\ call.fn = "generate_official_summary" ->
                Returned(call, official_select(call))
          [] call.stage = "select" /\ call.fn = "generate_simplified_summary" ->
                Returned(call, simplified_select(call,
                    RankDescending(n, ranked_greater(ranked_pairs(call.sents,
                                                                  call.scores)))))

----------------------------------------------------------------------------
(* ui.streamlit_app: st.session_state and one run of main.  Streamlit runs
   main from top to bottom once for each thing the user does; st.button
   returns True in the run its click started; a widget with a key keeps its
   value from one run to the next as long as every run renders it, and
   starts again from its default after a run that did not render it.  None
   is "None", and permission_decision is "None", "True" or "False".  What
   clean_text and the two summarizers return is handed to a run as a table
   from the argument to the result, which holds the texts the run can call
   them on and no other. *)

\* GOV_KEYWORDS of streamlit_app (circular_checker has its own)
ui_GOV_KEYWORDS ==
    << <<"g","o","v","e","r","n","m","e","n","t">>,
       <<"g","o","v","t">>,
       <<"d","e","p","a","r","t","m","e","n","t">>,
       <<"m","i","n","i","s","t","r","y">>,
       <<"s","e","c","r","e","t","a","r","y">>,
       <<"c","i","r","c","u","l","a","r">>,
       <<"n","o","t","i","f","i","c","a","t","i","o","n">>,
       <<"o","r","d","e","r">>,
       <<"g",".","o">>,
       <<"p","r","o","c","e","e","d","i","n","g","s">>,
       <<"u0B85","u0BB0","u0B9A","u0BC1">>,
       <<"u0B9A","u0BC1","u0BB1","u0BCD","u0BB1","u0BB1","u0BBF","u0B95","u0BCD","u0B95","u0BC8">>,
       <<"u0BA4","u0BC1","u0BB1","u0BC8">>,
       <<"u0B85","u0BB1","u0BBF","u0BB5","u0BBF","u0BAA","u0BCD","u0BAA","u0BC1">>,
       <<"u0938","u0930","u0915","u093E","u0930">>,
       <<"u0935","u093F","u092D","u093E","u0917">>,
       <<"u0905","u0927","u093F","u0938","u0942","u091A","u0928","u093E">>,
       <<"u0906","u0926","u0947","u0936">> >>

looks_like_circular(s) ==
    /\ s # <<>>
    /\ Strip(s) # <<>>
    /\ \E i \in 1..Len(ui_GOV_KEYWORDS) : Contains(lower(s), ui_GOV_KEYWORDS[i])

\* the defaults of initialize_session_state, and the two keyed widgets
SessionDefaults ==
    [ extracted_text |-> <<>>, cleaned_text |-> <<>>, official_summary |-> <<>>,
      simplified_summary |-> <<>>, translated_text |-> <<>>, audio_path |-> "None",
      permission_required |-> FALSE, permission_widget_value |-> "None",
      permission_decision |-> "None",
      permission_widget |-> "absent", paste_area |-> <<>> ]

\* the options of the permission selectbox; the first is the placeholder
PermissionOptions == <<"Select", "Yes, continue", "No, stop">>

reset_processing_state(s, keep_extracted) ==
    [s EXCEPT !.extracted_text = IF keep_extracted THEN @ ELSE <<>>,
              !.cleaned_text = <<>>,
              !.official_summary = <<>>,
              !.simplified_summary = <<>>,
              !.translated_text = <<>>,
              !.audio_path = "None",
              !.permission_required = FALSE,
              !.permission_widget_value = "None",
              !.permission_decision = "None"]

\* pdf_reader.extract_text of a file: a file that cannot be read raises; the
\* pages with text are stripped and joined
extract_text(file) ==
    IF ~file.readable THEN [raised |-> TRUE, text |-> <<>>]
    ELSE [raised |-> FALSE,
          text |-> Strip(Join(StripEach(SelectSeq(file.pages, LAMBDA page : page # <<>>)),
                              <<"\n", "\n">>))]

\* a variant that keeps what was computed from the last document
StoreKeepsResults(s, t, circular) ==
    [s EXCEPT !.extracted_text = t,
              !.permission_widget_value = "None",
              !.permission_required = ~circular,
              !.permission_decision = IF circular THEN "True" ELSE "None"]

\* lines 145-162 and 170-186: the text is stored, what was computed from the
\* last one is cleared, and the classifier (circular) decides whether to ask
store_text(s, t, circular) ==
    [s EXCEPT !.extracted_text = t,
              !.cleaned_text = <<>>,
              !.official_summary = <<>>,
              !.simplified_summary = <<>>,
              !.translated_text = <<>>,
              !.audio_path = "None",
              !.permission_widget_value = "None",
              !.permission_required = ~circular,
              !.permission_decision = IF circular THEN "True" ELSE "None"]

\* what process_pdf does with the outcome of extract_text
pdf_outcome(s, got) ==
    IF got.raised \/ got.text = <<>> THEN s
    ELSE store_text(s, got.text, looks_like_circular(got.text))

process_pdf(s, uploaded_file) == pdf_outcome(s, extract_text(uploaded_file))

\* a variant that takes any text that is not empty
PasteNotEmpty(s, user_text) ==
    IF user_text = <<>> THEN s
    ELSE store_text(s, user_text, looks_like_circular(user_text))

use_pasted_text(s, user_text) ==
    IF user_text = <<>> \/ Strip(user_text) = <<>> THEN s
    ELSE store_text(s, user_text, looks_like_circular(user_text))

clean_extracted_text(s, cleaner) ==
    IF s.extracted_text = <<>> THEN s
    ELSE [s EXCEPT !.cleaned_text = cleaner[s.extracted_text]]

run_summariser(s, which, summariser) ==
    IF s.cleaned_text = <<>> THEN s
    ELSE IF which = "official"
    THEN [s EXCEPT !.official_summary = summariser[s.cleaned_text].official]
    ELSE [s EXCEPT !.simplified_summary = summariser[s.cleaned_text].simplified]

\* gTTS is there and saves the file (saved), or it is missing or fails
generate_audio_for_text(s, saved) ==
    IF saved THEN [s EXCEPT !.audio_path = "tts.mp3"] ELSE s

\* the selectbox shows the value it kept, or the placeholder when new
render_permission_widget(s) ==
    LET choice == IF s.permission_widget = "absent" THEN PermissionOptions[1]
                  ELSE s.permission_widget
        shown == [s EXCEPT !.permission_widget = choice]
    IN  IF choice = "Yes, continue"
        THEN [shown EXCEPT !.permission_decision = "True",
                           !.permission_required = FALSE]
        ELSE IF choice = "No, stop"
        THEN reset_processing_state(
                 [shown EXCEPT !.permission_decision = "False",
                               !.permission_required = FALSE], FALSE)
        ELSE [shown EXCEPT !.permission_decision = "None"]

\* "if st.session_state.permission_required and st.session_state.extracted_text"
widget_due(s) == s.permission_required /\ s.extracted_text # <<>>

\* the text the audio step offers: translated, else simplified, else official
audio_text(s) ==
    IF s.translated_text # <<>> THEN s.translated_text
    ELSE IF s.simplified_summary # <<>> THEN s.simplified_summary
    ELSE s.official_summary

\* the steps of main take and give the session state and whether the run has
\* drawn the selectbox
load_pdf(s, up, ev) ==
    IF up # <<>> /\ ev = "Extract Text" THEN process_pdf(s, up[1]) ELSE s

load_pasted(s, ev) ==
    IF ev = "Use pasted text" THEN use_pasted_text(s, s.paste_area) ELSE s

\* lines 304-307 and 320-323
draw_widget(s, drawn, reached) ==
    [ s |-> IF reached /\ widget_due(s) THEN render_permission_widget(s) ELSE s,
      drawn |-> drawn \/ (reached /\ widget_due(s)) ]

\* lines 309-311 and 326-328
clean_button(run, ev, reached, label, cleaner) ==
    [ s |-> IF /\ reached
               /\ run.s.permission_decision = "True"
               /\ run.s.extracted_text # <<>>
               /\ ev = label
            THEN clean_extracted_text(run.s, cleaner) ELSE run.s,
      drawn |-> run.drawn ]

\* "with tab1:" (lines 297-311)
first_tab(s, up, ev, cleaner) ==
    clean_button(draw_widget(load_pdf(s, up, ev), FALSE, up # <<>>),
                 ev, up # <<>>, "Clean Text", cleaner)

\* "with tab2:" (lines 314-328)
second_tab(run, ev, cleaner) ==
    clean_button(draw_widget(load_pasted(run.s, ev), run.drawn, TRUE),
                 ev, TRUE, "Clean Text (pasted)", cleaner)

\* Step 2 (lines 339-346)
summary_steps(run, ev, summariser) ==
    [ s |-> IF run.s.permission_decision = "True" /\ run.s.cleaned_text # <<>>
            THEN IF ev = "Official Summary" THEN run_summariser(run.s, "official", summariser)
                 ELSE IF ev = "Simplified Summary"
                 THEN run_summariser(run.s, "simplified", summariser)
                 ELSE run.s
            ELSE run.s,
      drawn |-> run.drawn ]

\* Step 4 (lines 388-408), and what Streamlit does when the run ends: the
\* value of a widget the run did not draw is dropped
audio_step(run, ev, saved) ==
    [ IF /\ run.s.permission_decision = "True"
         /\ audio_text(run.s) # <<>>
         /\ ev = "Generate Audio"
      THEN generate_audio_for_text(run.s, saved) ELSE run.s
      EXCEPT !.permission_widget = IF run.drawn THEN @ ELSE "absent" ]

\* one run of main on session state s with file up in the uploader, started
\* by event ev.  The translator of load_translator_safe is None (app.translator
\* has no NLLBTranslator), so the Translate button is never drawn.  When both
\* tabs draw the selectbox, the second has the key of the first and Streamlit
\* stops the run there; the selectbox then shows the placeholder, under which
\* nothing after it would have changed the state.
main(s, up, ev, saved, cleaner, summariser) ==
    audio_step(summary_steps(second_tab(first_tab(s, up, ev, cleaner), ev, cleaner),
                             ev, summariser),
               ev, saved)

-----------------------------------------------------------------------------
(* tts_generator: the TTSGenerator class and the global instance.  An
   Optional[TTSGenerator] is <<>> for None or <<generator>>; an exception is
   the name of its class, "" when none is raised. *)

\* TTSGenerator.__init__
TTSGenerator(backend, device) ==
    [ backend |-> backend, device |-> device, tts_model |-> "None",
      _is_initialized |-> FALSE ]

_initialize_gtts(self, mod) ==
    [ self |-> self, raised |-> IF mod.GTTS_AVAILABLE THEN "" ELSE "ImportError" ]

\* a variant that goes to gTTS also when the TTS package is missing
CoquiOrGtts(self, mod, loads) ==
    IF mod.TTS_AVAILABLE /\ loads
    THEN [self |-> [self EXCEPT !.tts_model = "TTS"], raised |-> ""]
    ELSE _initialize_gtts([self EXCEPT !.backend = "gtts"], mod)

\* loads: TTS(model_name=...) returns a model; when it raises, the except
\* clause turns to gTTS
_initialize_coqui(self, mod, loads) ==
    IF ~mod.TTS_AVAILABLE THEN [self |-> self, raised |-> "ImportError"]
    ELSE IF loads THEN [self |-> [self EXCEPT !.tts_model = "TTS"], raised |-> ""]
    ELSE _initialize_gtts([self EXCEPT !.backend = "gtts"], mod)

\* "self._is_initialized = True", reached when nothing was raised
mark_initialized(done) ==
    IF done.raised = "" THEN [done EXCEPT !.self._is_initialized = TRUE] ELSE done

initialize(self, mod, loads) ==
    IF self._is_initialized THEN [self |-> self, raised |-> ""]
    ELSE IF self.backend = "coqui"
    THEN mark_initialized(_initialize_coqui(self, mod, loads))
    ELSE IF self.backend = "gtts" THEN mark_initialized(_initialize_gtts(self, mod))
    ELSE [self |-> self, raised |-> "ValueError"]

\* the rest of generate after initialize: the text is checked and the
\* backend of the generator synthesizes (synthesized: it wrote the file)
synthesize(ready, spoken, synthesized) ==
    IF ready.raised # "" THEN [ready EXCEPT !.used = <<>>]
    ELSE IF spoken = <<>> \/ Strip(spoken) = <<>>
    THEN [ready EXCEPT !.raised = "ValueError", !.used = <<>>]
    ELSE [ready EXCEPT !.raised = IF synthesized THEN "" ELSE "RuntimeError",
                       !.used = <<ready.self.backend, ready.self.device>>]

generate(self, spoken, mod, loads, synthesized) ==
    synthesize([self |-> initialize(self, mod, loads).self,
                raised |-> initialize(self, mod, loads).raised,
                used |-> <<>>],
               spoken, synthesized)

\* a variant that makes a generator for every call
NewGenerator(instance, backend, device) == <<TTSGenerator(backend, device)>>

get_tts_generator(instance, backend, device) ==
    IF instance = <<>> THEN <<TTSGenerator(backend, device)>> ELSE instance

\* generate_tts gives the global instance after the call and how the call ended
generate_tts(instance, spoken, backend, device, mod, loads, synthesized) ==
    IF spoken = <<>> \/ Strip(spoken) = <<>>
    THEN [instance |-> instance, raised |-> "ValueError", used |-> <<>>]
    ELSE LET run == generate(get_tts_generator(instance, backend, device)[1],
                             spoken, mod, loads, synthesized)
         IN  [instance |-> <<run.self>>, raised |-> run.raised, used |-> run.used]

NoTtsCall ==
    [ op |-> "none", backend |-> "", device |-> "", loads |-> FALSE,
      raised |-> "", used |-> <<>> ]

-----------------------------------------------------------------------------
(* translator: the three globals and the lazy load.  globals is the record
   of _tokenizer, _model and _lang_map ("None" when not loaded); files says
   what the load finds on disk: the model folder, a tokenizer and a model
   that from_pretrained can load, lang_code_to_id in the tokenizer, and
   lang_codes.json. *)

\* a variant whose guard asks for the language map too
LoadUnlessComplete(globals, files) ==
    IF globals.tokenizer # "None" /\ globals.model # "None" /\ globals.lang_map # "None"
    THEN [globals |-> globals, raised |-> ""]
    ELSE IF ~files.folder THEN [globals |-> globals, raised |-> "FileNotFoundError"]
    ELSE IF ~files.tokenizer THEN [globals |-> globals, raised |-> "OSError"]
    ELSE IF ~files.model
    THEN [globals |-> [globals EXCEPT !.tokenizer = "NllbTokenizerFast"],
          raised |-> "OSError"]
    ELSE IF files.lang_code_to_id
    THEN [globals |-> [tokenizer |-> "NllbTokenizerFast", model |-> "AutoModel",
                       lang_map |-> "lang_code_to_id"],
          raised |-> ""]
    ELSE IF ~files.lang_codes_json
    THEN [globals |-> [globals EXCEPT !.tokenizer = "NllbTokenizerFast",
                                      !.model = "AutoModel"],
          raised |-> "RuntimeError"]
    ELSE [globals |-> [tokenizer |-> "NllbTokenizerFast", model |-> "AutoModel",
                       lang_map |-> "lang_codes.json"],
          raised |-> ""]

_load_model_and_tokenizer(globals, files) ==
    IF globals.tokenizer # "None" /\ globals.model # "None"
    THEN [globals |-> globals, raised |-> ""]
    ELSE IF ~files.folder THEN [globals |-> globals, raised |-> "FileNotFoundError"]
    ELSE IF ~files.tokenizer THEN [globals |-> globals, raised |-> "OSError"]
    ELSE IF ~files.model
    THEN [globals |-> [globals EXCEPT !.tokenizer = "NllbTokenizerFast"],
          raised |-> "OSError"]
    ELSE IF files.lang_code_to_id
    THEN [globals |-> [tokenizer |-> "NllbTokenizerFast", model |-> "AutoModel",
                       lang_map |-> "lang_code_to_id"],
          raised |-> ""]
    ELSE IF ~files.lang_codes_json
    THEN [globals |-> [globals EXCEPT !.tokenizer = "NllbTokenizerFast",
                                      !.model = "AutoModel"],
          raised |-> "RuntimeError"]
    ELSE [globals |-> [tokenizer |-> "NllbTokenizerFast", model |-> "AutoModel",
                       lang_map |-> "lang_codes.json"],
          raised |-> ""]

\* the language codes of either map
SupportedLangCodes == {"eng_Latn", "tam_Taml"}

\* get_supported_lang_codes after its load: _lang_map.keys() of None raises
supported_after(loaded) ==
    [ globals |-> loaded.globals,
      load_returned |-> loaded.raised = "",
      raised |-> IF loaded.raised # "" THEN loaded.raised
                 ELSE IF loaded.globals.lang_map = "None" THEN "AttributeError"
                 ELSE "",
      result |-> IF loaded.raised = "" /\ loaded.globals.lang_map # "None"
                 THEN <<"eng_Latn", "tam_Taml">> ELSE <<>> ]

get_supported_lang_codes(globals, files) ==
    supported_after(_load_model_and_tokenizer(globals, files))

\* translate after its load: "source_lang not in _lang_map" of None raises;
\* the translation of a text is the text marked with the target language
translate_after(loaded, words, source_lang, target_lang) ==
    [ globals |-> loaded.globals,
      load_returned |-> loaded.raised = "",
      raised |-> IF loaded.raised # "" THEN loaded.raised
                 ELSE IF loaded.globals.lang_map = "None" THEN "TypeError"
                 ELSE IF {source_lang, target_lang} \subseteq SupportedLangCodes THEN ""
                 ELSE "ValueError",
      result |-> IF /\ loaded.raised = ""
                    /\ loaded.globals.lang_map # "None"
                    /\ {source_lang, target_lang} \subseteq SupportedLangCodes
                 THEN <<target_lang>> \o Strip(words) ELSE <<>> ]

translate(globals, files, words, source_lang, target_lang) ==
    IF words = <<>> \/ Strip(words) = <<>>
    THEN [globals |-> globals, load_returned |-> FALSE, raised |-> "", result |-> <<>>]
    ELSE translate_after(_load_model_and_tokenizer(globals, files),
                         words, source_lang, target_lang)

-----------------------------------------------------------------------------
(* The documents of the runs.  A document arrives fragment by fragment; the
   fragments of a run are chosen so that the cases of the functions it
   applies occur in documents of a few fragments. *)

\* raw extracted text: page markers, separators, characters off the whitelist
CleanPieces ==
    { <<"P","a","g","e"," ","1">>, <<"a">>, <<"1">>, <<"-">>, <<".">>,
      <<" ">>, <<"\n">>, <<"|">>, <<"@">>, <<"u0938">>, <<"u0B85">> }

\* the document of Scenario 1
Scenario1Text ==
    <<"G","o","v","e","r","n","m","e","n","t"," ","o","f"," ","T","a","m","i",
      "l"," ","N","a","d","u","."," ","S","u","b","j","e","c","t",":"," ","A",
      "t","t","e","n","d","a","n","c","e","."," ","A","l","l"," ","H","e","a",
      "d","m","a","s","t","e","r","s"," ","a","r","e"," ","i","n","s","t","r",
      "u","c","t","e","d"," ","t","o"," ","e","n","s","u","r","e"," ","i","n",
      "s","t","a","l","l","a","t","i","o","n"," ","o","f"," ","d","e","v","i",
      "c","e","s"," ","b","e","f","o","r","e"," ","3","0","t","h"," ","A","u",
      "g","u","s","t"," ","2","0","2","4",".">>

\* the three sentences of Scenario 1, and a sentence in Tamil
ScenarioPieces ==
    { Slice(Scenario1Text, 1, 26), Slice(Scenario1Text, 27, 47),
      Slice(Scenario1Text, 48, Len(Scenario1Text)),
      <<"u0B85","u0BB0","u0B9A","u0BC1","."," ">> }

\* documents with zero to four of the sixteen gov_keywords
ClassifyPieces ==
    { Scenario1Text,
      <<"G",".","O",".">>,
      <<"c","i","r","c","u","l","a","r">>,
      <<"a"," ","g","o","v","t"," ","b"," ","c">>,
      <<" ","s","c","h","o","o","l"," ","e","d","u","c","a","t","i","o","n",
        " ","d","e","p","a","r","t","m","e","n","t"," ","o","f"," ">>,
      <<" ">> }

\* n_sentences: a near-duplicate pair, a directive with a comma, an
\* unterminated tail, a sentence that spans a line break
SummaryPieces ==
    { <<"P","a","y"," ","t","a","x","."," ">>,
      <<"N","o","w"," ","p","a","y"," ","t","a","x","."," ">>,
      <<"Y","o","u"," ","m","u","s","t"," ","f","i","l","e",","," ","s","i",
        "g","n"," ","a","n","d"," ","s","e","n","d"," ","i","t"," ","n","o",
        "w","."," ">>,
      <<"A","l","l"," ","i","s"," ","w","e","l","l","!","\n">>,
      <<"t","h","e"," ","e","n","d">>,
      <<"D","o","\n","i","t","."," ">> }

\* whitespace of every kind, and one piece of text
BlankPieces == { <<" ">>, <<"\n">>, <<"\t">>, <<"\r">>, <<"a",".">> }

\* sentences for _shorten_sentence: twenty-one words, a word with a comma,
\* eighteen words, and short words with a comma or a semicolon
ShortenPieces ==
    { <<"w"," ","w"," ","w"," ","w"," ","w"," ","w"," ","w"," ","w"," ",
      "w"," ","w"," ","w"," ","w"," ","w"," ","w"," ","w"," ","w"," ",
      "w"," ","w"," ","w"," ","w"," ","w"," ">>,
      <<"x",","," ">>,
      <<"w"," ","w"," ","w"," ","w"," ","w"," ","w"," ","w"," ","w"," ",
      "w"," ","w"," ","w"," ","w"," ","w"," ","w"," ","w"," ","w"," ",
      "w"," ","w"," ">>,
      <<"a"," "," ">>,
      <<",","b",";"," ">>,
      <<"c",";"," ">> }

\* clauses closed by the danda (U+0964) and by . ! ?, an unterminated word
\* and whitespace, for _split_sentences
SplitPieces ==
    { <<"u0930","u0964"," ">>, <<"a","."," ">>, <<"b","!","\n">>,
      <<"?"," "," ">>, <<"c">>, <<" ">> }

\* texts with the phrases of remove_common_noise, whole and in halves
NoisePieces ==
    { <<"C","o","n","f","i","d","e","n","t","i","a","l">>, <<"C","o","n","f">>, <<"i","d","e","n","t","i","a","l">>,
      <<"D","R","A","F","T"," ","c","o","p","y">>, <<"a">>, <<"b">>, <<" ">> }

\* noise_phrases: None, and two lists of the caller
NoisePhraseLists == { <<>>, << <<"a","b">> >>, << <<"b">>, <<"A","B">> >> }

\* documents with keywords of the scored classifier and with headers, for
\* the two classifiers
VariantPieces ==
    { <<"s","e","c","r","e","t","a","r","i","a","t"," ","d","i","r","e","c","t","o","r","a","t","e"," ">>,
      <<"p","u","b","l","i","c"," ","n","o","t","i","c","e"," ","a","d","m","i","n","i","s","t","r","a","t","i","v","e"," ">>,
      <<"s","c","h","o","o","l"," ","e","d","u","c","a","t","i","o","n"," ">>,
      <<"c","i","r","c","u","l","a","r"," ">>,
      <<"a"," ">>,
      <<"G","o","v","t","."," ","o","f"," ","T","N"," ">>,
      <<"u092D","u093E","u0930","u0924"," ","u0938","u0930","u0915","u093E",
        "u0930">> }

\* lines for remove_headers_footers: body lines that begin like a header or
\* a page number, a separator, a number, text, blanks and line breaks
HeaderPieces ==
    { <<"G","O","V","E","R","N","M","E","N","T"," ","o","f"," ","x">>,
      <<"P","a","g","e"," ","3"," ","i","s">>,
      <<"-","-","-">>, <<"1">>, <<"a">>, <<" ">>, <<"\n">> }

\* the arguments of the concurrent calls
CallTexts ==
    { <<"A","l","l"," ","i","s"," ","w","e","l","l","!","\n","P","a","y"," ",
        "t","a","x","."," ","N","o","w"," ","p","a","y"," ","t","a","x","."," ">>,
      <<"a"," ","g","o","v","t"," ","b","-","\n","c","\n","1","\n","A","l","l",
        " ","i","s"," ","w","e","l","l","!">> }

\* the values tried for the parameters
ShortenLimits == {0, 1, 2, 18}
SentenceCounts == {-1, 0, 1, 2}
BulletCounts == {-1, 0, 1, 2}
WordLimits == {1, 3}

----------------------------------------------------------------------------
(* The state machine: build a document, then apply the functions. *)

\* the backends, devices and texts of the calls of tts_generator
TtsBackends == {"coqui", "gtts", "espeak"}
TtsDevices == {"cpu", "cuda"}
TtsTexts == { <<>>, <<" ">>, <<"u0B85","u0BB0","u0B9A","u0BC1",".">> }

\* no call of translator yet
NoTranslatorCall ==
    [ op |-> "none", words |-> <<>>, source_lang |-> "", target_lang |-> "",
      load_returned |-> FALSE, raised |-> "", result |-> <<>> ]

\* what a load of the translator can find on disk, and the texts and
\* languages of the calls
TranslatorFiles ==
    [ folder : BOOLEAN, tokenizer : BOOLEAN, model : BOOLEAN,
      lang_code_to_id : BOOLEAN, lang_codes_json : BOOLEAN ]
TranslatedTexts == { <<>>, <<" ">>, <<"P","a","y"," ">> }
TranslatorLangs == {"eng_Latn", "tam_Taml", "xx"}

\* what the user pastes: nothing, a blank, a circular, a notice that is none
PastedTexts ==
    { <<>>, <<" ">>,
      <<"G","o","v","t"," ","o","r","d","e","r",":"," ","p","a","y"," ","t","a","x",".">>,
      <<"P","a","y"," ","t","a","x"," ","n","o","w",".">> }

\* what the user uploads: a notice, a circular of three pages (one without
\* text), a scan without text, and a file pdfplumber cannot open
UploadedFiles ==
    { [readable |-> TRUE, pages |-> <<<<"S","h","o","p","s"," ","c","l","o","s","e"," ","a","t"," ","9",".">>>>],
      [readable |-> TRUE, pages |-> <<<<"C","i","r","c","u","l","a","r"," ","1","2"," ">>, <<>>, <<"P","a","y"," ","f","e","e","s",".">>>>],
      [readable |-> TRUE, pages |-> << <<>> >>],
      [readable |-> FALSE, pages |-> <<>>] }

Init ==
    /\ text = <<>>
    /\ fed = 0
    /\ pc = "input"
    /\ remove_page_numbers = TRUE
    /\ cleaned = <<>>
    /\ recleaned = <<>>
    /\ verdict = <<>>
    /\ prev_verdict = <<>>
    /\ strict_verdict = <<>>
    /\ n_sentences = 3
    /\ top_idx = <<>>
    /\ official_summary = <<>>
    /\ n_bullets = 5
    /\ word_limit = 18
    /\ accepted = <<>>
    /\ chosen_sorted = <<>>
    /\ bullet_list = <<>>
    /\ simplified_summary = <<>>
    /\ shorten_max_words = 18
    /\ shortened = <<>>
    /\ sentence_list = <<>>
    /\ noise_arg = <<>>
    /\ denoised = <<>>
    /\ headerless = <<>>
    /\ calls = [c \in CallSlots |-> IdleCall]
    /\ invoked = 0
    /\ module_tables = ModuleTables
    /\ session = SessionDefaults
    /\ uploaded = <<>>
    /\ ui_event = "start"
    /\ consented = <<>>
    /\ tts_module = [imported |-> FALSE, TTS_AVAILABLE |-> FALSE, GTTS_AVAILABLE |-> FALSE]
    /\ _tts_generator_instance = <<>>
    /\ tts_call = NoTtsCall
    /\ _tokenizer = "None"
    /\ _model = "None"
    /\ _lang_map = "None"
    /\ translator_call = NoTranslatorCall

\* one more fragment of the document arrives
Feed(pieces, max) ==
    /\ pc = "input"
    /\ fed < max
    /\ \E piece \in pieces : text' = text \o piece
    /\ fed' = fed + 1
    /\ UNCHANGED <<otherVars, pc, cleanerVars, classifierVars, officialVars, simplifiedVars>>

FeedClean == Feed(CleanPieces, MaxCleanPieces)
FeedClassify == Feed(ClassifyPieces, MaxClassifyPieces)
FeedSummary == Feed(SummaryPieces, MaxSummaryPieces)
FeedBlank == Feed(BlankPieces, MaxBlankPieces)

\* cleaned = clean_text(text, remove_page_numbers)
CleanText(from) ==
    /\ pc = from
    /\ \E rpn \in BOOLEAN :
          /\ remove_page_numbers' = rpn
          /\ cleaned' = clean_text(text, rpn)
    /\ pc' = "cleaned"
    /\ UNCHANGED <<otherVars, docVars, recleaned, classifierVars, officialVars, simplifiedVars>>

\* recleaned = clean_text(cleaned, remove_page_numbers)
CleanAgain ==
    /\ pc = "cleaned"
    /\ recleaned' = clean_text(cleaned, remove_page_numbers)
    /\ pc' = "recleaned"
    /\ UNCHANGED <<otherVars, docVars, remove_page_numbers, cleaned, classifierVars,
                   officialVars, simplifiedVars>>

\* verdict = detect_government_circular(text)
Detect(from) ==
    /\ pc = from
    /\ verdict' = <<detect_government_circular(text)>>
    /\ pc' = "detected"
    /\ UNCHANGED <<otherVars, docVars, cleanerVars, prev_verdict, strict_verdict,
                   officialVars, simplifiedVars>>

\* more text is put after or before the document, and the longer document is
\* classified
DetectExtended ==
    /\ pc = "detected"
    /\ fed < MaxClassifyPieces
    /\ \E piece \in ClassifyPieces, before \in BOOLEAN :
          /\ text' = IF before THEN piece \o text ELSE text \o piece
          /\ verdict' = <<detect_government_circular(text')>>
    /\ fed' = fed + 1
    /\ prev_verdict' = verdict
    /\ UNCHANGED <<otherVars, pc, cleanerVars, strict_verdict, officialVars, simplifiedVars>>

\* strict_verdict = is_government_circular(text)
StrictCheck(from) ==
    /\ pc = from
    /\ strict_verdict' = <<is_government_circular(text)>>
    /\ pc' = "checked"
    /\ UNCHANGED <<otherVars, docVars, cleanerVars, verdict, prev_verdict,
                   officialVars, simplifiedVars>>

\* official_summary = generate_official_summary(text, n_sentences)
OfficialSummary(from) ==
    /\ pc = from
    /\ \E k \in SentenceCounts :
          \E run \in {official_locals(text, k)} :
              /\ n_sentences' = k
              /\ top_idx' = run.top_idx
              /\ official_summary' = run.summary
    /\ pc' = "official"
    /\ UNCHANGED <<otherVars, docVars, cleanerVars, classifierVars, simplifiedVars>>

\* simplified_summary = generate_simplified_summary(text, n_bullets, word_limit)
SimplifiedSummary(from) ==
    /\ pc = from
    /\ \E k \in BulletCounts, m \in WordLimits :
          \E run \in {simplified_locals(text, k, m)} :
              /\ n_bullets' = k
              /\ word_limit' = m
              /\ accepted' = run.accepted
              /\ chosen_sorted' = run.chosen_indices
              /\ bullet_list' = run.bullets_out
              /\ simplified_summary' = Join(run.bullets_out, <<"\n">>)
    /\ pc' = "simplified"
    /\ UNCHANGED <<otherVars, docVars, cleanerVars, classifierVars, officialVars>>

\* shortened = _shorten_sentence(text, shorten_max_words)
Shorten ==
    /\ pc = "input"
    /\ \E m \in ShortenLimits :
          /\ shorten_max_words' = m
          /\ shortened' = _shorten_sentence(text, m)
    /\ pc' = "shortened"
    /\ UNCHANGED <<docVars, cleanerVars, classifierVars, officialVars, simplifiedVars,
                   sentence_list, noise_arg, denoised, headerless, callVars,
                   appVars>>

\* sentence_list = _split_sentences(text)
SplitSentences ==
    /\ pc = "input"
    /\ sentence_list' = _split_sentences(text)
    /\ pc' = "split"
    /\ UNCHANGED <<docVars, cleanerVars, classifierVars, officialVars, simplifiedVars,
                   shorten_max_words, shortened, noise_arg, denoised, headerless,
                   callVars, appVars>>

\* denoised = remove_common_noise(text, noise_arg)
RemoveNoise ==
    /\ pc = "input"
    /\ \E phrases \in NoisePhraseLists :
          /\ noise_arg' = phrases
          /\ denoised' = remove_common_noise(text, phrases)
    /\ pc' = "denoised"
    /\ UNCHANGED <<docVars, cleanerVars, classifierVars, officialVars, simplifiedVars,
                   shorten_max_words, shortened, sentence_list, headerless, callVars,
                   appVars>>

\* headerless = remove_headers_footers(text)
StripHeaders ==
    /\ pc = "input"
    /\ headerless' = remove_headers_footers(text)
    /\ pc' = "headerless"
    /\ UNCHANGED <<docVars, cleanerVars, classifierVars, officialVars, simplifiedVars,
                   shorten_max_words, shortened, sentence_list, noise_arg, denoised,
                   callVars, appVars>>

\* a call starts in a free slot
Invoke(c) ==
    /\ invoked < MaxInvocations
    /\ calls[c].stage \in {"idle", "done"}
    /\ \E fn \in CallFunctions, t \in CallTexts :
          calls' = [calls EXCEPT ![c] =
                       [IdleCall EXCEPT !.fn = fn, !.text = t, !.stage = "start"]]
    /\ invoked' = invoked + 1
    /\ UNCHANGED <<docVars, pc, cleanerVars, classifierVars, officialVars,
                   simplifiedVars, helperVars, module_tables, appVars>>

\* the call of slot c, when it is a call of fn, executes its next statement
Running(c, fns) == calls[c].fn \in fns /\ calls[c].stage \notin {"idle", "done"}

CleanStep(c) ==
    /\ Running(c, {"clean_text"})
    /\ calls' = [calls EXCEPT ![c] = clean_step(@)]
    /\ UNCHANGED <<docVars, pc, cleanerVars, classifierVars, officialVars,
                   simplifiedVars, helperVars, invoked, module_tables, appVars>>

DetectStep(c) ==
    /\ Running(c, {"detect_government_circular"})
    /\ calls' = [calls EXCEPT ![c] = detect_step(@)]
    /\ UNCHANGED <<docVars, pc, cleanerVars, classifierVars, officialVars,
                   simplifiedVars, helperVars, invoked, module_tables, appVars>>

StrictStep(c) ==
    /\ Running(c, {"is_government_circular"})
    /\ calls' = [calls EXCEPT ![c] = strict_step(@, module_tables.GOV_KEYWORDS)]
    /\ UNCHANGED <<docVars, pc, cleanerVars, classifierVars, officialVars,
                   simplifiedVars, helperVars, invoked, module_tables, appVars>>

SummaryStep(c) ==
    /\ Running(c, {"generate_official_summary", "generate_simplified_summary"})
    /\ calls' = [calls EXCEPT ![c] =
                     summary_step(@, own_freq(calls, c), module_tables._STOPWORDS)]
    /\ UNCHANGED <<docVars, pc, cleanerVars, classifierVars, officialVars,
                   simplifiedVars, helperVars, invoked, module_tables, appVars>>

\* text_cleaner.clean_text and the summarizers on the texts of a set
Cleaner(texts) == [t \in texts |-> clean_text(t, TRUE)]
Summariser(texts) ==
    [t \in texts |-> [official |-> generate_official_summary(t, 3),
                      simplified |-> generate_simplified_summary(t, 5, 18)]]

\* no text: the run calls neither
NoCalls == [t \in {} |-> <<>>]

\* the run accepts a text
TextAccepted(ev, s, up) ==
    \/ /\ ev = "Extract Text"
       /\ ~extract_text(up[1]).raised
       /\ extract_text(up[1]).text # <<>>
    \/ ev = "Use pasted text" /\ Strip(s.paste_area) # <<>>

\* a run of main started by event ev, with s the session state the browser
\* sent and up the uploaded file
UiRun(ev, s, up, saved, cleaner, summariser) ==
    /\ session' = main(s, up, ev, saved, cleaner, summariser)
    /\ uploaded' = up
    /\ ui_event' = ev
    /\ consented' = IF ev = "Yes, continue" THEN <<s.extracted_text>> ELSE consented
    /\ UNCHANGED <<coreVars, ttsVars, translatorVars>>

\* the user puts a file in the uploader, or takes it out
UploadFile ==
    \E up \in {<<>>} \cup {<<f>> : f \in UploadedFiles} :
        up # uploaded /\ UiRun("upload", session, up, FALSE, NoCalls, NoCalls)

\* the user edits the text area
TypeText ==
    \E t \in PastedTexts :
        /\ t # session.paste_area
        /\ UiRun("paste_area", [session EXCEPT !.paste_area = t], uploaded, FALSE,
                 NoCalls, NoCalls)

ClickExtract ==
    uploaded # <<>> /\ UiRun("Extract Text", session, uploaded, FALSE, NoCalls, NoCalls)

\* the button hands over what the text area holds
ClickUsePasted ==
    /\ session.paste_area \in PastedTexts
    /\ UiRun("Use pasted text", session, uploaded, FALSE, NoCalls, NoCalls)

\* the user picks an option of the selectbox the last run drew
SelectPermission ==
    /\ session.permission_widget # "absent"
    /\ \E i \in 1..Len(PermissionOptions) :
          /\ PermissionOptions[i] # session.permission_widget
          /\ UiRun(PermissionOptions[i],
                   [session EXCEPT !.permission_widget = PermissionOptions[i]],
                   uploaded, FALSE, NoCalls, NoCalls)

\* "Clean Text" of the first tab or "Clean Text (pasted)" of the second
ClickClean ==
    /\ session.permission_decision = "True"
    /\ session.extracted_text # <<>>
    /\ \E ev \in {"Clean Text", "Clean Text (pasted)"} :
          /\ ev = "Clean Text" => uploaded # <<>>
          /\ UiRun(ev, session, uploaded, FALSE,
                   Cleaner({session.extracted_text}), NoCalls)

\* "Official Summary" or "Simplified Summary"
ClickSummary ==
    /\ session.permission_decision = "True"
    /\ session.cleaned_text # <<>>
    /\ \E ev \in {"Official Summary", "Simplified Summary"} :
          UiRun(ev, session, uploaded, FALSE, NoCalls,
                Summariser({session.cleaned_text}))

ClickGenerateAudio ==
    /\ session.permission_decision = "True"
    /\ audio_text(session) # <<>>
    /\ \E saved \in BOOLEAN :
          UiRun("Generate Audio", session, uploaded, saved, NoCalls, NoCalls)

\* the Streamlit application in use
NextSession ==
    \/ UploadFile \/ TypeText \/ ClickExtract \/ ClickUsePasted \/ SelectPermission
    \/ ClickClean \/ ClickSummary \/ ClickGenerateAudio
SpecSession == Init /\ [][NextSession]_vars

\* tts_generator is imported: the two try-imports find their package or not
ImportTts ==
    /\ ~tts_module.imported
    /\ \E coqui \in BOOLEAN, gtts \in BOOLEAN :
          tts_module' = [imported |-> TRUE, TTS_AVAILABLE |-> coqui,
                         GTTS_AVAILABLE |-> gtts]
    /\ UNCHANGED <<coreVars, uiVars, translatorVars, _tts_generator_instance, tts_call>>

\* get_tts_generator(backend, device)
GetTtsGenerator ==
    /\ tts_module.imported
    /\ \E backend \in TtsBackends, device \in TtsDevices :
          /\ _tts_generator_instance' =
                 get_tts_generator(_tts_generator_instance, backend, device)
          /\ tts_call' = [NoTtsCall EXCEPT !.op = "get_tts_generator",
                                           !.backend = backend, !.device = device]
    /\ UNCHANGED <<coreVars, uiVars, translatorVars, tts_module>>

\* initialize() of the global instance
Initialize ==
    /\ _tts_generator_instance # <<>>
    /\ \E loads \in BOOLEAN :
          \E done \in {initialize(_tts_generator_instance[1], tts_module, loads)} :
              /\ _tts_generator_instance' = <<done.self>>
              /\ tts_call' = [NoTtsCall EXCEPT !.op = "initialize", !.loads = loads,
                                               !.raised = done.raised]
    /\ UNCHANGED <<coreVars, uiVars, translatorVars, tts_module>>

\* generate_tts(text, output_path, "ta", backend, device)
GenerateTts ==
    /\ tts_module.imported
    /\ \E spoken \in TtsTexts, backend \in TtsBackends, device \in TtsDevices,
          loads \in BOOLEAN, synthesized \in BOOLEAN :
          \E done \in {generate_tts(_tts_generator_instance, spoken, backend, device,
                                    tts_module, loads, synthesized)} :
              /\ _tts_generator_instance' = done.instance
              /\ tts_call' = [op |-> "generate_tts", backend |-> backend,
                              device |-> device, loads |-> loads,
                              raised |-> done.raised, used |-> done.used]
    /\ UNCHANGED <<coreVars, uiVars, translatorVars, tts_module>>

\* the text-to-speech module in use
NextTts == ImportTts \/ GetTtsGenerator \/ Initialize \/ GenerateTts
SpecTts == Init /\ [][NextTts]_vars

\* the three globals of translator as a record
TranslatorGlobals == [tokenizer |-> _tokenizer, model |-> _model, lang_map |-> _lang_map]

\* the call leaves the globals and its outcome
TranslatorReturn(call, done) ==
    /\ _tokenizer' = done.globals.tokenizer
    /\ _model' = done.globals.model
    /\ _lang_map' = done.globals.lang_map
    /\ translator_call' = [call EXCEPT !.load_returned = done.load_returned,
                                       !.raised = done.raised,
                                       !.result = done.result]

\* get_supported_lang_codes()
GetSupportedLangCodes ==
    /\ \E files \in TranslatorFiles :
          TranslatorReturn([NoTranslatorCall EXCEPT !.op = "get_supported_lang_codes"],
                           get_supported_lang_codes(TranslatorGlobals, files))
    /\ UNCHANGED <<coreVars, uiVars, ttsVars>>

\* translate(text, source_lang, target_lang)
Translate ==
    /\ \E files \in TranslatorFiles, words \in TranslatedTexts,
          source_lang \in TranslatorLangs, target_lang \in TranslatorLangs :
          TranslatorReturn([NoTranslatorCall EXCEPT !.op = "translate",
                                                    !.words = words,
                                                    !.source_lang = source_lang,
                                                    !.target_lang = target_lang],
                           translate(TranslatorGlobals, files, words,
                                     source_lang, target_lang))
    /\ UNCHANGED <<coreVars, uiVars, ttsVars>>

\* the translator in use
NextTranslator == GetSupportedLangCodes \/ Translate
SpecTranslator == Init /\ [][NextTranslator]_vars

\* the cleaner on raw text, and again on its own output
NextClean == FeedClean \/ CleanText("input") \/ CleanAgain
SpecClean == Init /\ [][NextClean]_vars

\* the two classifiers, and the scored one on extended documents
NextClassify ==
    FeedClassify \/ Detect("input") \/ DetectExtended \/ StrictCheck("detected")
SpecClassify == Init /\ [][NextClassify]_vars

\* the two summarizers
NextSummary == FeedSummary \/ OfficialSummary("input") \/ SimplifiedSummary("input")
SpecSummary == Init /\ [][NextSummary]_vars

\* the shortening of one sentence
NextShorten == Feed(ShortenPieces, MaxShortenPieces) \/ Shorten
SpecShorten == Init /\ [][NextShorten]_vars

\* the splitting of one document
NextSplit == Feed(SplitPieces, MaxSplitPieces) \/ SplitSentences
SpecSplit == Init /\ [][NextSplit]_vars

\* the official summary of documents made of the sentences of Scenario 1
NextScenario == Feed(ScenarioPieces, MaxScenarioPieces) \/ OfficialSummary("input")
SpecScenario == Init /\ [][NextScenario]_vars

\* the removal of noise phrases from one document
NextNoise == Feed(NoisePieces, MaxNoisePieces) \/ RemoveNoise
SpecNoise == Init /\ [][NextNoise]_vars

\* the scored classifier, then the strict one, on the same document
NextVariants ==
    Feed(VariantPieces, MaxVariantPieces) \/ Detect("input") \/ StrictCheck("detected")
SpecVariants == Init /\ [][NextVariants]_vars

\* the header and footer strip of one document
NextHeaders == Feed(HeaderPieces, MaxHeaderPieces) \/ StripHeaders
SpecHeaders == Init /\ [][NextHeaders]_vars

\* calls of the five functions, interleaved statement by statement
NextCalls ==
    \E c \in CallSlots :
        Invoke(c) \/ CleanStep(c) \/ DetectStep(c) \/ StrictStep(c) \/ SummaryStep(c)
SpecCalls == Init /\ [][NextCalls]_vars

\* every function in turn on documents that are mostly whitespace
NextBlank ==
    \/ FeedBlank
    \/ CleanText("input")
    \/ Detect("cleaned")
    \/ StrictCheck("detected")
    \/ OfficialSummary("checked")
    \/ SimplifiedSummary("official")
SpecBlank == Init /\ [][NextBlank]_vars

----------------------------------------------------------------------------
(* Claims about the cleaner. *)

\* C1: clean_text is idempotent: cleaning the cleaned text again, with the
\* same remove_page_numbers flag, returns the cleaned text unchanged.
C1_Idempotent == pc = "recleaned" => recleaned = cleaned

\* how often the character c occurs in s
Occurrences(s, c) == Cardinality({i \in 1..Len(s) : s[i] = c})

\* the text that reaches the whitelist filter (step 4 of clean_text)
BeforeWhitelist ==
    LET t1 == remove_headers_footers(text)
    IN  normalize_whitespace(
            IF remove_page_numbers THEN remove_page_numbers_pattern(t1) ELSE t1)

\* C12: clean_text never replaces a character of the Devanagari, Tamil,
\* Telugu, Kannada, Malayalam, Bengali, Gurmukhi, Gujarati or Odia blocks with
\* a space: every such character that reaches the whitelist filter is in the
\* cleaned text.
C12_ScriptsKept ==
    (pc = "cleaned" /\ Strip(text) # <<>>) =>
        \A c \in IndicLetter \cup TamilBlock :
            Occurrences(cleaned, c) = Occurrences(BeforeWhitelist, c)

\* the same for the Tamil block alone, the one block the pattern names
TamilKept ==
    (pc = "cleaned" /\ Strip(text) # <<>>) =>
        \A c \in TamilBlock :
            Occurrences(cleaned, c) = Occurrences(BeforeWhitelist, c)

NumberLine(line) == line # <<>> /\ \A i \in 1..Len(line) : line[i] \in Digit

\* C18: with remove_page_numbers = False, clean_text removes no page number:
\* every line of the input that consists only of a number is a line of the
\* output.
C18_NumberLinesKept ==
    (pc = "cleaned" /\ ~remove_page_numbers) =>
        \A k \in 1..Len(Split(text, "\n")) :
            NumberLine(Split(text, "\n")[k]) =>
                \E j \in 1..Len(Split(cleaned, "\n")) :
                    Split(cleaned, "\n")[j] = Split(text, "\n")[k]

\* C17: the text remove_common_noise returns has no case-insensitive
\* occurrence of any phrase of the list it was given (of the default list
\* when none was given).
C17_NoiseRemoved ==
    pc = "denoised" =>
        LET phrases == IF noise_arg = <<>> THEN default_noise ELSE noise_arg
        IN  \A k \in 1..Len(phrases) : ~Contains(lower(denoised), lower(phrases[k]))

----------------------------------------------------------------------------
(* Claims about the summarizers. *)

StrictlyIncreasing(seq) == \A i \in 1..(Len(seq) - 1) : seq[i] < seq[i + 1]

WithinDocument(seq) == \A i \in 1..Len(seq) : seq[i] \in 1..Len(_split_sentences(text))

\* C2: the sentences of the official summary and the bullets of the
\* simplified summary are taken in strictly increasing order of their index
\* in the document, whatever order the scores put them in.
C2_OrderPreserved ==
    /\ pc = "official" => StrictlyIncreasing(top_idx) /\ WithinDocument(top_idx)
    /\ pc = "simplified" =>
           StrictlyIncreasing(chosen_sorted) /\ WithinDocument(chosen_sorted)

\* an official summary of two sentences whose scores rank the later sentence
\* first
C2_Witness ==
    /\ pc = "official"
    /\ Len(top_idx) >= 2
    /\ ~StrictlyIncreasing(PyPrefix(official_ranking(_split_sentences(text)),
                                    n_sentences))

\* C3: the official summary is built from at most max(k, 0) sentences and
\* the simplified summary has at most max(k, 0) bullets, for every count k,
\* negative counts included.
C3_CountBound ==
    /\ pc = "official" => Len(top_idx) <= Max({n_sentences, 0})
    /\ pc = "simplified" => Len(bullet_list) <= Max({n_bullets, 0})

\* a bullet without its "- " marker and without a trailing "..." marker
BulletBody(b) ==
    LET t == Slice(b, 3, Len(b))
    IN  IF Len(t) >= 3 /\ Slice(t, Len(t) - 2, Len(t)) = <<".", ".", ".">>
        THEN Slice(t, 1, Len(t) - 3)
        ELSE t

\* C4: every bullet of the simplified summary has at most m + 1 words, the
\* "- " marker and a trailing "..." not counted, m being
\* max_words_per_bullet.
C4_BulletWordBound ==
    pc = "simplified" =>
        \A r \in 1..Len(bullet_list) :
            Len(Words(BulletBody(bullet_list[r]))) <= word_limit + 1

\* one string is a case-insensitive substring of the other
CaseInsensitiveSubstring(a, b) ==
    Contains(lower(a), lower(b)) \/ Contains(lower(b), lower(a))

\* C10: when the first pass accepts bullet_count sentences, no two selected
\* sentences are such that one is a case-insensitive substring of the other.
C10_NoNearDuplicates ==
    (pc = "simplified" /\ Len(accepted) >= n_bullets) =>
        \A a, b \in 1..Len(chosen_sorted) :
            a # b => ~CaseInsensitiveSubstring(
                         _split_sentences(text)[chosen_sorted[a]],
                         _split_sentences(text)[chosen_sorted[b]])

\* two bullets were asked for and accepted by the first pass, and a sentence
\* of the document was left out that is a near-duplicate of a selected one
C10_Witness ==
    /\ pc = "simplified"
    /\ n_bullets = 2
    /\ Len(accepted) = 2
    /\ \E j \in 1..Len(_split_sentences(text)), a \in 1..Len(chosen_sorted) :
          /\ ~InSeq(j, chosen_sorted)
          /\ CaseInsensitiveSubstring(_split_sentences(text)[j],
                                      _split_sentences(text)[chosen_sorted[a]])

\* where a sentence starts when the terminal marks are marks: at the first
\* character that is no whitespace, and after every run of whitespace that
\* immediately follows a mark
SentenceStarts(s, marks) ==
    {p \in 1..Len(s) :
        /\ s[p] \notin Whitespace
        /\ \/ \A q \in 1..(p - 1) : s[q] \in Whitespace
           \/ /\ p > 1
              /\ s[p - 1] \in Whitespace
              /\ \E q \in 1..(p - 1) :
                    /\ s[q] \in marks
                    /\ \A r \in (q + 1)..(p - 1) : s[r] \in Whitespace}

\* the sentences between these starts, trimmed, in source order
SentencesBetween(s, starts) ==
    Tuple([k \in 1..Cardinality(starts) |->
        LET from == CHOOSE p \in starts : Cardinality({q \in starts : q < p}) = k - 1
            later == {q \in starts : q > from}
        IN  Strip(Slice(s, from, IF later = {} THEN Len(s) ELSE Min(later) - 1))])

\* C15: _split_sentences starts a new sentence at every run of whitespace
\* that immediately follows one of the terminal marks . ! ? and the danda,
\* discards empty fragments and returns the sentences in source order.
C15_SplitsAtTerminalMarks ==
    pc = "split" =>
        sentence_list =
            SentencesBetween(text, SentenceStarts(text, Terminal \cup {"u0964"}))

\* the same with the marks . ! ? alone
SplitsAtAsciiMarks ==
    pc = "split" => sentence_list = SentencesBetween(text, SentenceStarts(text, Terminal))

\* the final score of sentence i (1-based) of the claim, base * (8/5 if a
\* directive term is a case-insensitive substring) * (23n - 3(i-1)) / (20n),
\* as the numerator over the square root it is compared by
FinalScore(sents, scores, i) ==
    [w |-> scores[i].raw
           * (IF \E kw \in _DIRECTIVE_KEYWORDS : Contains(lower(sents[i]), lower(kw))
              THEN 8 ELSE 5)
           * (23 * Len(sents) - 3 * (i - 1)),
     ntok |-> scores[i].ntok]

\* top holds min(k, n) sentences, and no sentence outside it has a final
\* score above the score of a sentence in it
SelectsHighest(sents, scores, top, k) ==
    /\ Len(top) = Min({k, Len(sents)})
    /\ \A a \in 1..Len(top), u \in 1..Len(sents) :
          InSeq(u, top) \/
          ~GreaterOverRoot(FinalScore(sents, scores, u).w,
                           FinalScore(sents, scores, u).ntok,
                           FinalScore(sents, scores, top[a]).w,
                           FinalScore(sents, scores, top[a]).ntok)

\* C16: generate_official_summary selects the k >= 0 sentences with the
\* highest final scores base * (1.6 if directive) * (1 + 0.15 (1 - i/n)), i
\* the position of the sentence counted from 0, and for the Scenario 1 text
\* with k = 2 the selection contains the sentence about the Headmasters.
C16_DirectiveSelection ==
    (pc = "official" /\ n_sentences >= 0 /\ Strip(text) # <<>>) =>
        /\ SelectsHighest(_split_sentences(text),
                          _score_sentences(_split_sentences(text)),
                          top_idx, n_sentences)
        /\ (text = Scenario1Text /\ n_sentences = 2) =>
              /\ InSeq(3, top_idx)
              /\ Contains(official_summary, Slice(Scenario1Text, 48, Len(Scenario1Text)))

\* the Scenario 1 text summarised in two sentences, the third among them
C16_Witness ==
    /\ pc = "official"
    /\ text = Scenario1Text
    /\ n_sentences = 2
    /\ InSeq(3, top_idx)
    /\ Len(top_idx) = 2

\* the base scores raw / (maxf sqrt(ntok)) of two sentences are equal; a
\* sentence without content tokens scores 0
EqualBase(a, b) ==
    IF a.raw = 0 \/ b.raw = 0 THEN a.raw = b.raw
    ELSE a.raw * a.raw * b.ntok = b.raw * b.raw * a.ntok

\* of two sentences with equal base score and the same directive status the
\* later is in top only if the earlier is; when every base score is 0, top is
\* the first min(k, n) sentences
LeadPreferred(sents, scores, top, k) ==
    /\ \A i, j \in 1..Len(sents) :
          (/\ i < j
           /\ EqualBase(scores[i], scores[j])
           /\ _contains_directive(sents[i]) = _contains_directive(sents[j])
           /\ InSeq(j, top)) => InSeq(i, top)
    /\ (\A i \in 1..Len(sents) : scores[i].raw = 0) =>
          top = Tuple([r \in 1..Min({k, Len(sents)}) |-> r])

\* C23: in generate_official_summary with k >= 0, of two sentences i < j
\* with equal base score and the same directive status, j is selected only
\* if i is; when every base score is 0 the summary is the first min(k, n)
\* sentences in order.
C23_LeadPreference ==
    (pc = "official" /\ n_sentences >= 0 /\ Strip(text) # <<>>) =>
        /\ LeadPreferred(_split_sentences(text),
                         _score_sentences(_split_sentences(text)),
                         top_idx, n_sentences)
        /\ (\A i \in 1..Len(text) : text[i] \notin AlNum) =>
              official_summary =
                  Strip(Join(SubSeq(_split_sentences(text), 1,
                                    Min({n_sentences, Len(_split_sentences(text))})),
                             <<" ">>))

\* a text of three Tamil sentences summarised in two: the first and second
C23_Witness ==
    /\ pc = "official"
    /\ n_sentences = 2
    /\ Len(_split_sentences(text)) = 3
    /\ \A i \in 1..Len(text) : text[i] \notin AlNum
    /\ top_idx = <<1, 2>>

\* C14: the output of generate_simplified_summary, split on newline
\* characters, has exactly one line per selected sentence, and every line
\* begins with "- " and ends with one of . ! ?
C14_OneLinePerBullet ==
    (pc = "simplified" /\ chosen_sorted # <<>>) =>
        LET lines == Split(simplified_summary, "\n")
        IN  /\ Len(lines) = Len(chosen_sorted)
            /\ \A r \in 1..Len(lines) :
                  /\ Len(lines[r]) >= 3
                  /\ SubSeq(lines[r], 1, 2) = <<"-", " ">>
                  /\ lines[r][Len(lines[r])] \in Terminal

\* C19: for a text of n sentences and bullet_count k >= 0,
\* generate_simplified_summary outputs exactly min(k, n) bullets, each from a
\* distinct sentence index.
C19_BackfillQuota ==
    (pc = "simplified" /\ n_bullets >= 0 /\ Strip(text) # <<>>) =>
        /\ Len(bullet_list) = Min({n_bullets, Len(_split_sentences(text))})
        /\ Len(chosen_sorted) = Len(bullet_list)
        /\ \A a, b \in 1..Len(chosen_sorted) :
              a # b => chosen_sorted[a] # chosen_sorted[b]
        /\ \A a \in 1..Len(chosen_sorted) :
              bullet_list[a] = bullet(_split_sentences(text)[chosen_sorted[a]], word_limit)

\* the duplicate-avoiding pass accepted one sentence of two asked for, and
\* the backfill added a near-duplicate of it
C19_Witness ==
    /\ pc = "simplified"
    /\ n_bullets = 2
    /\ Len(accepted) = 1
    /\ Len(bullet_list) = 2
    /\ CaseInsensitiveSubstring(_split_sentences(text)[chosen_sorted[1]],
                                _split_sentences(text)[chosen_sorted[2]])

----------------------------------------------------------------------------
(* Claims about empty input. *)

\* "" or whitespace only
Blank(s) == \A i \in 1..Len(s) : s[i] \in Whitespace

\* C5: for the empty string and for every whitespace-only string, clean_text
\* and both summarizers return "", detect_government_circular returns
\* is_circular = false with confidence 0 and is_government_circular False.
C5_EmptyInputLaw ==
    Blank(text) =>
        /\ pc # "input" => cleaned = <<>>
        /\ verdict # <<>> =>
               ~verdict[1].is_circular /\ verdict[1].confidence = 0
        /\ strict_verdict # <<>> => strict_verdict[1] = FALSE
        /\ pc \in {"official", "simplified"} => official_summary = <<>>
        /\ pc = "simplified" => simplified_summary = <<>> /\ bullet_list = <<>>

\* every function has run on a document of whitespace of several kinds
C5_Witness ==
    /\ pc = "simplified"
    /\ Blank(text)
    /\ Len(text) >= 2
    /\ \E i, j \in 1..Len(text) : text[i] # text[j]
    /\ verdict # <<>>
    /\ strict_verdict # <<>>

----------------------------------------------------------------------------
(* Claims about the classifiers. *)

\* the number of entries of gov_keywords that occur in the lowercased text
hits == Cardinality({i \in 1..Len(gov_keywords) :
                        Contains(lower(text), gov_keywords[i])})

\* C6: after text is appended or prepended to a document, the confidence of
\* detect_government_circular is no lower than before, and a circular
\* verdict is not withdrawn.
C6_Monotone ==
    (verdict # <<>> /\ prev_verdict # <<>>) =>
        /\ verdict[1].confidence >= prev_verdict[1].confidence
        /\ prev_verdict[1].is_circular => verdict[1].is_circular

\* an extension that raised a confidence above 0 and turned the verdict
C6_Witness ==
    /\ verdict # <<>>
    /\ prev_verdict # <<>>
    /\ prev_verdict[1].confidence > 0
    /\ verdict[1].confidence > prev_verdict[1].confidence
    /\ ~prev_verdict[1].is_circular
    /\ verdict[1].is_circular

\* C7: for a non-blank text the confidence is hits / 16 rounded to two
\* decimals, within [0, 1], and is_circular holds exactly when the unrounded
\* hits / 16 is at least 0.20.  (The confidence is kept in hundredths.)
C7_ScoredVerdict ==
    (verdict # <<>> /\ ~Blank(text)) =>
        /\ verdict[1].confidence \in 0..100
        /\ 100 * hits - 16 * verdict[1].confidence \in -8..8
        /\ verdict[1].is_circular <=> 5 * hits >= 16

\* three keywords: 0.1875 is reported as 0.19 and is not a circular
C7_Witness ==
    /\ verdict # <<>>
    /\ ~Blank(text)
    /\ hits = 3
    /\ verdict[1].confidence = 19
    /\ ~verdict[1].is_circular

\* the number of characters that are not whitespace
NonWhitespace(s) == Cardinality({i \in 1..Len(s) : s[i] \notin Whitespace})

\* C8: for a text of fewer than 10 non-whitespace characters both
\* classifiers answer not-a-circular, the scored one with confidence 0,
\* whatever keywords the text contains.
C8_ShortInputRule ==
    NonWhitespace(text) < 10 =>
        /\ verdict # <<>> =>
               ~verdict[1].is_circular /\ verdict[1].confidence = 0
        /\ strict_verdict # <<>> => strict_verdict[1] = FALSE

\* C9 as claimed: detect_government_circular classifies the document of
\* Scenario 1, and any text whose only keyword is "government of", as a
\* circular.
C9_Scenario1Circular ==
    (verdict # <<>> /\ (text = Scenario1Text
                        \/ (hits = 1 /\ Contains(lower(text), str_government_of)))) =>
        verdict[1].is_circular

\* C9 as amended: for the document of Scenario 1, and for any text with one
\* of the sixteen keywords, detect_government_circular returns is_circular =
\* false with confidence 0.06; is_government_circular returns True for the
\* document of Scenario 1.
C9_Scenario1Scored ==
    /\ (verdict # <<>> /\ (text = Scenario1Text \/ hits = 1)) =>
           ~verdict[1].is_circular /\ verdict[1].confidence = 6
    /\ (strict_verdict # <<>> /\ text = Scenario1Text) => strict_verdict[1] = TRUE

\* both classifiers have answered on the document of Scenario 1
C9_Witness ==
    /\ text = Scenario1Text
    /\ pc = "checked"
    /\ verdict # <<>>
    /\ strict_verdict # <<>>

\* the first of the first n words that holds a comma, 0 when there is none
FirstCommaWord(words, n) ==
    LET J == {j \in 1..Min({n, Len(words)}) : Contains(words[j], <<",">>)}
    IN  IF J = {} THEN 0 ELSE CHOOSE j \in J : \A k \in J : j <= k

\* the words before the first comma, and what precedes the comma in its word
BeforeComma(words, j) ==
    LET w == words[j]
        part == Slice(w, 1, Find(w, ",") - 1)
    IN  SubSeq(words, 1, j - 1) \o (IF part = <<>> THEN <<>> ELSE <<part>>)

C21_StrictDecisionRule ==
    pc = "checked" =>
        LET keyword == \E i \in 1..Len(GOV_KEYWORDS) :
                           Contains(lower(text), lower(GOV_KEYWORDS[i]))
            header == header_match(lower(text))
        IN  /\ strict_verdict = <<Len(Strip(text)) >= 10 /\ (keyword \/ header)>>
            /\ header => keyword

\* a document with capitals that a header pattern matches, classified True
C21_Witness ==
    /\ pc = "checked"
    /\ text # lower(text)
    /\ Len(Strip(text)) >= 10
    /\ header_match(lower(text))
    /\ strict_verdict = <<TRUE>>

\* C20: whenever detect_government_circular returns is_circular = true,
\* is_government_circular returns True for the same text.
C20_StrictIsThresholdOne ==
    (pc = "checked" /\ verdict # <<>> /\ verdict[1].is_circular) =>
        strict_verdict = <<TRUE>>

----------------------------------------------------------------------------
(* Claims about concurrent calls. *)

\* the result of the function fn on the text s when it runs alone, a
\* summarizer with the arguments of the calls
RunAlone(fn, s) ==
    CASE fn = "clean_text" -> clean_text(s, TRUE)
      [] fn = "detect_government_circular" -> detect_government_circular(s)
      [] fn = "is_government_circular" -> is_government_circular(s)
      [] fn = "generate_official_summary" -> generate_official_summary(s, 1)
      [] fn = "generate_simplified_summary" -> generate_simplified_summary(s, 1, 18)

\* C13: when calls of clean_text, the two classifiers and the two summarizers
\* are interleaved statement by statement, every call returns what the
\* function returns on its input when it runs alone (so two calls on the same
\* input return equal results), and no module-level table is modified.
C13_Stateless ==
    /\ module_tables = ModuleTables
    /\ \A c \in CallSlots :
          calls[c].stage = "done" =>
              calls[c].result = <<RunAlone(calls[c].fn, calls[c].text)>>

\* two summarizer calls on different inputs are both between the start and
\* the end of _score_sentences, each with tokens counted
C13_Witness ==
    /\ calls["a"].text # calls["b"].text
    /\ \A c \in CallSlots :
          /\ calls[c].stage \in {"count", "score"}
          /\ calls[c].counted # <<>>

-----------------------------------------------------------------------------
(* Claims about the Streamlit session. *)

\* something has been computed from the document
HasResults(s) ==
    s.cleaned_text # <<>> \/ s.official_summary # <<>> \/ s.simplified_summary # <<>>

\* C24: in every reachable session state, cleaned text and summaries exist
\* only while permission_decision is True; for a document not detected as a
\* circular they stay empty until the user selects "Yes, continue" for it;
\* and permission_required = True implies permission_decision is None.
C24_ClassifierGate ==
    /\ HasResults(session) => session.permission_decision = "True"
    /\ (HasResults(session) /\ ~looks_like_circular(session.extracted_text))
           => consented = <<session.extracted_text>>
    /\ session.permission_required => session.permission_decision = "None"

\* the part of C24 that holds of the code: results only under a decision
\* of True, and no decision while permission is required
GateOnDecision ==
    /\ HasResults(session) => session.permission_decision = "True"
    /\ session.permission_required => session.permission_decision = "None"

\* C25: cleaned_text is empty or clean_text(extracted_text), each summary is
\* empty or the summarizer's result on the current cleaned_text, and after
\* a run that accepted a new document cleaned_text, both summaries,
\* translated_text and audio_path are clear.
C25_NoStaleResults ==
    /\ session.cleaned_text # <<>> =>
           session.cleaned_text = clean_text(session.extracted_text, TRUE)
    /\ session.official_summary # <<>> =>
           session.official_summary =
               generate_official_summary(session.cleaned_text, 3)
    /\ session.simplified_summary # <<>> =>
           session.simplified_summary =
               generate_simplified_summary(session.cleaned_text, 5, 18)
    /\ (ui_event \in {"Extract Text", "Use pasted text"}
            /\ TextAccepted(ui_event, session, uploaded)) =>
           /\ ~HasResults(session)
           /\ session.translated_text = <<>>
           /\ session.audio_path = "None"

\* a document with its cleaned text, a summary and audio
C25_Witness ==
    /\ session.cleaned_text # <<>>
    /\ session.official_summary # <<>>
    /\ session.audio_path = "tts.mp3"

\* C26: a run in which the user answers "No, stop" to the permission
\* question leaves permission_decision False, permission_required False and
\* extracted_text and everything computed from it clear; and
\* permission_decision stays False until a run accepts a new document.
C26_StopRecorded ==
    /\ [][(ui_event' = "No, stop" /\ session.permission_required) =>
              /\ session'.permission_decision = "False"
              /\ ~session'.permission_required
              /\ session'.extracted_text = <<>>
              /\ ~HasResults(session')
              /\ session'.translated_text = <<>>
              /\ session'.audio_path = "None"]_vars
    /\ [][(session.permission_decision = "False"
              /\ ~(ui_event' \in {"Extract Text", "Use pasted text"}
                      /\ TextAccepted(ui_event', session, uploaded))) =>
              session'.permission_decision = "False"]_vars

\* what the stop does leave: nothing of the document, and no decision
StopClearsAll ==
    [][(ui_event' = "No, stop" /\ session.permission_required) =>
          /\ session'.permission_decision = "None"
          /\ ~session'.permission_required
          /\ session'.extracted_text = <<>>
          /\ ~HasResults(session')]_vars

\* the fields of the session C27 lists
SessionFields(s) ==
    <<s.extracted_text, s.cleaned_text, s.official_summary, s.simplified_summary,
      s.translated_text, s.audio_path, s.permission_required, s.permission_decision>>

\* C27: a run in which process_pdf fails to extract (an exception or empty
\* text) or use_pasted_text gets blank text leaves every session field as
\* it was.
C27_FailedInputKeepsSession ==
    [][(ui_event' \in {"Extract Text", "Use pasted text"}
           /\ ~TextAccepted(ui_event', session, uploaded)) =>
          SessionFields(session') = SessionFields(session)]_vars

\* a blank paste over a document with results, and a file that gave no text
C27_Witness ==
    /\ ui_event = "Use pasted text"
    /\ session.paste_area = <<" ">>
    /\ session.cleaned_text # <<>>
    /\ session.permission_decision = "True"

-----------------------------------------------------------------------------
(* Claims about the text-to-speech generator. *)

\* C28: every generate_tts call that synthesizes does so with the backend
\* and device of its own arguments (gTTS standing in for a Coqui whose model
\* does not load in that call), whatever the earlier calls asked for, and
\* after get_tts_generator(backend, device) the generator has that backend.
C28_RequestedBackendHonoured ==
    /\ (tts_call.op = "generate_tts" /\ tts_call.used # <<>>) =>
           \/ tts_call.used = <<tts_call.backend, tts_call.device>>
           \/ /\ tts_call.backend = "coqui"
              /\ ~tts_call.loads
              /\ tts_call.used = <<"gtts", tts_call.device>>
    /\ tts_call.op = "get_tts_generator" =>
           _tts_generator_instance[1].backend = tts_call.backend

\* C30: initialize() of a generator of backend "coqui", when Coqui cannot be
\* used (the TTS package is missing or its model does not load) and gTTS is
\* installed, returns with backend = "gtts" and _is_initialized = True; on
\* an initialized generator it changes nothing; when it raises,
\* _is_initialized stays False.
C30_GttsFallback ==
    [][tts_call'.op = "initialize" =>
          LET self == _tts_generator_instance[1]
              after == _tts_generator_instance'[1]
          IN  /\ (/\ ~self._is_initialized
                  /\ self.backend = "coqui"
                  /\ ~(tts_module.TTS_AVAILABLE /\ tts_call'.loads)
                  /\ tts_module.GTTS_AVAILABLE) =>
                     /\ tts_call'.raised = ""
                     /\ after.backend = "gtts"
                     /\ after._is_initialized
              /\ self._is_initialized => (after = self /\ tts_call'.raised = "")
              /\ tts_call'.raised # "" => ~after._is_initialized]_vars

\* the part of C30 that holds of the code: the fallback when the package is
\* there and its model does not load
FallbackOnLoadFailure ==
    [][tts_call'.op = "initialize" =>
          LET self == _tts_generator_instance[1]
              after == _tts_generator_instance'[1]
          IN  /\ (/\ ~self._is_initialized
                  /\ self.backend = "coqui"
                  /\ tts_module.TTS_AVAILABLE /\ ~tts_call'.loads
                  /\ tts_module.GTTS_AVAILABLE) =>
                     /\ tts_call'.raised = ""
                     /\ after.backend = "gtts"
                     /\ after._is_initialized
              /\ self._is_initialized => (after = self /\ tts_call'.raised = "")
              /\ tts_call'.raised # "" => ~after._is_initialized]_vars

-----------------------------------------------------------------------------
(* Claims about the translator. *)

\* C29: after any calls of translate and get_supported_lang_codes, a load
\* that returned without raising left _tokenizer, _model and _lang_map all
\* loaded; and translate of an empty or blank text returns "" and loads
\* nothing.
C29_LazyLoad ==
    /\ [](translator_call.load_returned =>
              (_tokenizer # "None" /\ _model # "None" /\ _lang_map # "None"))
    /\ [][(translator_call'.op = "translate" /\ Strip(translator_call'.words) = <<>>) =>
              /\ translator_call'.result = <<>>
              /\ translator_call'.raised = ""
              /\ UNCHANGED <<_tokenizer, _model, _lang_map>>]_vars

\* the part of C29 about blank text, which holds of the code
BlankLoadsNothing ==
    [][(translator_call'.op = "translate" /\ Strip(translator_call'.words) = <<>>) =>
          /\ translator_call'.result = <<>>
          /\ translator_call'.raised = ""
          /\ UNCHANGED <<_tokenizer, _model, _lang_map>>]_vars

====
